---- MODULE Spec2Model ----
(***************************************************************************)
(* Model of the ic_infinitecloud_bot backend: the path-addressed           *)
(* FileSystem (repositories/types/filesystem.rs), the ChatSession          *)
(* (repositories/types/chat_session.rs) and the per-chat turn handlers of  *)
(* ChatSessionServiceImpl (services/chat_session_service.rs).              *)
(*                                                                         *)
(* Strings are sequences of lexemes: "/" (the path separator), "." (the    *)
(* dot) and atoms, an atom standing for a run of ordinary characters.      *)
(* A PathBuf is kept as its components (std::path compares paths by        *)
(* components). Option<T> is a sequence of length 0 or 1. The created_at   *)
(* timestamps of the nodes are left out.                                   *)
(***************************************************************************)
EXTENDS Integers, Sequences, FiniteSets, TLC

----------------------------------------------------------------------------
(* Option and Result *)

None == <<>>
Some(x) == <<x>>
is_some(o) == Len(o) = 1
is_none(o) == Len(o) = 0
unwrap(o) == o[1]

Last(s) == s[Len(s)]
Front(s) == SubSeq(s, 1, Len(s) - 1)

----------------------------------------------------------------------------
(* Strings and std::path *)

SEP == "/"
DOT == "."
CurDir == <<DOT>>
ParentDirComponent == <<DOT, DOT>>

\* splits a string on "/", dropping the empty pieces
RECURSIVE SplitSep(_, _, _)
SplitSep(s, cur, acc) ==
    IF s = <<>> THEN (IF cur = <<>> THEN acc ELSE Append(acc, cur))
    ELSE IF Head(s) = SEP
         THEN SplitSep(Tail(s), <<>>, IF cur = <<>> THEN acc ELSE Append(acc, cur))
         ELSE SplitSep(Tail(s), Append(cur, Head(s)), acc)

NotCurDir(c) == c # CurDir

\* PathBuf::from(String) seen through Path::components(): repeated separators
\* and "." components are dropped, except a leading "." of a relative path
PathBuf_from(s) ==
    LET abs  == s # <<>> /\ Head(s) = SEP
        segs == SplitSep(s, <<>>, <<>>)
    IN  [abs   |-> abs,
         comps |-> IF ~abs /\ segs # <<>> /\ Head(segs) = CurDir
                   THEN <<CurDir>> \o SelectSeq(Tail(segs), NotCurDir)
                   ELSE SelectSeq(segs, NotCurDir)]

RECURSIVE JoinSep(_)
JoinSep(comps) ==
    IF comps = <<>> THEN <<>>
    ELSE IF Len(comps) = 1 THEN Head(comps)
    ELSE Head(comps) \o <<SEP>> \o JoinSep(Tail(comps))

\* Path::to_string_lossy().to_string()
to_string_lossy(path) ==
    IF path.abs THEN <<SEP>> \o JoinSep(path.comps) ELSE JoinSep(path.comps)

root_path == [abs |-> TRUE, comps |-> <<>>]

is_absolute(path) ==
    LET path_str == to_string_lossy(path)
    IN  path_str # <<>> /\ Head(path_str) = SEP

\* Path::file_name(): the last component when it is a normal one
file_name(path) ==
    IF path.comps = <<>> THEN None
    ELSE IF Last(path.comps) \in {CurDir, ParentDirComponent} THEN None
    ELSE Some(Last(path.comps))

\* Path::parent(): the path without its last component
parent(path) ==
    IF path.comps = <<>> THEN None
    ELSE Some([abs |-> path.abs, comps |-> Front(path.comps)])

\* PathBuf::push(String): an absolute argument replaces the path
push(path, s) ==
    IF s # <<>> /\ Head(s) = SEP THEN PathBuf_from(s)
    ELSE LET base == to_string_lossy(path)
         IN  IF base = <<>> \/ Last(base) = SEP
             THEN PathBuf_from(base \o s)
             ELSE PathBuf_from(base \o <<SEP>> \o s)

join(path, s) == push(path, s)

\* PathBuf::pop()
pop(path) == IF is_some(parent(path)) THEN unwrap(parent(path)) ELSE path

\* PathBuf::set_file_name(String)
set_file_name(path, s) ==
    IF is_some(file_name(path)) THEN push(pop(path), s) ELSE push(path, s)

RECURSIVE LastDot(_, _)
LastDot(name, i) ==
    IF i = 0 THEN 0 ELSE IF name[i] = DOT THEN i ELSE LastDot(name, i - 1)

\* std::path rsplit_file_at_dot: <<before, after>>
rsplit_file_at_dot(name) ==
    LET i == LastDot(name, Len(name))
    IN  IF name = ParentDirComponent THEN <<Some(name), None>>
        ELSE IF i = 0 THEN <<None, Some(name)>>
        ELSE IF i = 1 THEN <<Some(name), None>>
        ELSE <<Some(SubSeq(name, 1, i - 1)), Some(SubSeq(name, i + 1, Len(name)))>>

\* Path::extension()
extension(path) ==
    IF is_none(file_name(path)) THEN None
    ELSE LET ba == rsplit_file_at_dot(unwrap(file_name(path)))
         IN  IF is_some(ba[1]) THEN ba[2] ELSE None

\* Path::file_stem()
file_stem(path) ==
    IF is_none(file_name(path)) THEN None
    ELSE LET ba == rsplit_file_at_dot(unwrap(file_name(path)))
         IN  IF is_some(ba[1]) THEN ba[1] ELSE ba[2]

\* Path::with_extension(String)
with_extension(path, ext) ==
    IF is_none(file_stem(path)) THEN path
    ELSE LET stem == unwrap(file_stem(path))
             name == IF ext = <<>> THEN stem ELSE stem \o <<DOT>> \o ext
         IN  [abs |-> path.abs, comps |-> Append(Front(path.comps), name)]

\* Path::components().skip(1): the components after the root
skip1(path) ==
    IF path.abs THEN path.comps
    ELSE IF path.comps = <<>> THEN <<>> ELSE Tail(path.comps)

----------------------------------------------------------------------------
(* FileSystemNode and FileSystem *)

Ok(v) == [ok |-> TRUE, val |-> Some(v), err |-> ""]
Err(e) == [ok |-> FALSE, val |-> None, err |-> e]

TG_FILE_MIME_TYPE_PREFIX == "tg+"

\* format!("{TG_FILE_MIME_TYPE_PREFIX}<kind>")
TgMime(kind) == <<TG_FILE_MIME_TYPE_PREFIX, kind>>

starts_with_tg_prefix(s) == s # <<>> /\ Head(s) = TG_FILE_MIME_TYPE_PREFIX

\* the mime2ext crate on the MIME types the model sends; anything else has
\* no extension
mime2ext(mime) ==
    IF mime = <<"image", SEP, "png">> THEN Some(<<"png">>)
    ELSE IF mime = <<"image", SEP, "jpeg">> THEN Some(<<"jpg">>)
    ELSE IF mime = <<"text", SEP, "plain">> THEN Some(<<"txt">>)
    ELSE None

new_file(message_id, size, mime_type) ==
    [kind |-> "File", message_id |-> message_id, size |-> size,
     mime_type |-> mime_type]

new_directory == [kind |-> "Directory", nodes |-> <<>>]

is_directory(node) == node.kind = "Directory"
is_file(node) == node.kind = "File"

file_message_id(node) == IF is_file(node) THEN Some(node.message_id) ELSE None
file_mime_type(node) == IF is_file(node) THEN node.mime_type ELSE None

ls_directories(node) ==
    IF is_directory(node)
    THEN Ok({k \in DOMAIN node.nodes : is_directory(node.nodes[k])})
    ELSE Err("Not a directory")

ls_files(node) ==
    IF is_directory(node)
    THEN Ok({k \in DOMAIN node.nodes : is_file(node.nodes[k])})
    ELSE Err("Not a directory")

\* BTreeMap::insert and BTreeMap::remove
MapInsert(m, k, v) == [x \in (DOMAIN m) \cup {k} |-> IF x = k THEN v ELSE m[x]]
MapRemove(m, k) == [x \in (DOMAIN m) \ {k} |-> m[x]]

\* impl Default for FileSystem
DefaultFileSystem ==
    [root |-> [kind |-> "Directory",
               nodes |-> [k \in {<<"Documents">>, <<"Images">>, <<"Videos">>,
                                 <<"Trash">>} |-> new_directory]]]

\* mutant of get_node_from: a file met before the last component is an error
RECURSIVE get_node_from_strict(_, _)
get_node_from_strict(current, comps) ==
    IF comps = <<>> THEN Ok(current)
    ELSE IF is_directory(current) /\ Head(comps) \in DOMAIN current.nodes
         THEN get_node_from_strict(current.nodes[Head(comps)], Tail(comps))
         ELSE Err("Path not found")

RECURSIVE get_node_from(_, _)
get_node_from(current, comps) ==
    IF comps = <<>> THEN Ok(current)
    ELSE IF is_directory(current)
         THEN IF Head(comps) \in DOMAIN current.nodes
              THEN get_node_from(current.nodes[Head(comps)], Tail(comps))
              ELSE Err("Path not found")
         ELSE Ok(current)

\* mutant of get_node: the path is not checked to be absolute
get_node_unchecked(fs, path) == get_node_from(fs.root, skip1(path))

get_node(fs, path) ==
    IF ~is_absolute(path) THEN Err("Path must be absolute")
    ELSE get_node_from(fs.root, skip1(path))

\* mutant of insert_node_from: a file met on the walk is replaced by a
\* directory
RECURSIVE insert_node_from_over_files(_, _, _, _)
insert_node_from_over_files(current, comps, path, node) ==
    LET dir == IF is_directory(current) THEN current ELSE new_directory
    IN  IF comps = <<>>
        THEN IF is_none(file_name(path))
             THEN [ok |-> FALSE, err |-> "Invalid file name", node |-> dir]
             ELSE [ok |-> TRUE, err |-> "",
                   node |-> [dir EXCEPT !.nodes =
                               MapInsert(@, unwrap(file_name(path)), node)]]
        ELSE LET key   == Head(comps)
                 child == IF key \in DOMAIN dir.nodes
                          THEN dir.nodes[key] ELSE new_directory
                 r     == insert_node_from_over_files(child, Tail(comps), path, node)
             IN  [ok |-> r.ok, err |-> r.err,
                  node |-> [dir EXCEPT !.nodes = MapInsert(@, key, r.node)]]

\* the walk of insert_node from `current` down the parent's components, then
\* the insertion; `node` of the result is `current` after the call, which
\* keeps the directories or_insert_with created even when the call fails
RECURSIVE insert_node_from(_, _, _, _)
insert_node_from(current, comps, path, node) ==
    IF comps = <<>>
    THEN IF is_directory(current)
         THEN IF is_none(file_name(path))
              THEN [ok |-> FALSE, err |-> "Invalid file name", node |-> current]
              ELSE [ok |-> TRUE, err |-> "",
                    node |-> [current EXCEPT !.nodes =
                                MapInsert(@, unwrap(file_name(path)), node)]]
         ELSE [ok |-> FALSE, err |-> "Parent is not a directory", node |-> current]
    ELSE IF is_directory(current)
         THEN LET key   == Head(comps)
                  child == IF key \in DOMAIN current.nodes
                           THEN current.nodes[key] ELSE new_directory
                  r     == insert_node_from(child, Tail(comps), path, node)
              IN  [ok |-> r.ok, err |-> r.err,
                   node |-> [current EXCEPT !.nodes = MapInsert(@, key, r.node)]]
         ELSE [ok |-> FALSE, err |-> "Parent is not a directory", node |-> current]

\* mutant of insert_node: a path without parent names the root, which the
\* node replaces
insert_node_at_root(fs, path, node) ==
    IF is_none(parent(path))
    THEN [ok |-> TRUE, err |-> "", fs |-> [root |-> node]]
    ELSE LET r == insert_node_from(fs.root, skip1(unwrap(parent(path))), path, node)
         IN  [ok |-> r.ok, err |-> r.err, fs |-> [root |-> r.node]]

\* result: ok, err and the file system after the call
insert_node(fs, path, node) ==
    IF is_none(parent(path))
    THEN [ok |-> FALSE, err |-> "Invalid path", fs |-> fs]
    ELSE LET r == insert_node_from(fs.root, skip1(unwrap(parent(path))), path, node)
         IN  [ok |-> r.ok, err |-> r.err, fs |-> [root |-> r.node]]

RECURSIVE remove_node_from(_, _, _)
remove_node_from(current, comps, path) ==
    IF comps = <<>>
    THEN IF is_directory(current)
         THEN IF is_none(file_name(path))
              THEN [ok |-> FALSE, err |-> "Invalid file name", node |-> current,
                    removed |-> None]
              ELSE IF unwrap(file_name(path)) \in DOMAIN current.nodes
              THEN [ok |-> TRUE, err |-> "",
                    node |-> [current EXCEPT !.nodes =
                                MapRemove(@, unwrap(file_name(path)))],
                    removed |-> Some(current.nodes[unwrap(file_name(path))])]
              ELSE [ok |-> FALSE, err |-> "Node not found", node |-> current,
                    removed |-> None]
         ELSE [ok |-> FALSE, err |-> "Parent is not a directory", node |-> current,
               removed |-> None]
    ELSE IF is_directory(current)
         THEN LET key   == Head(comps)
                  child == IF key \in DOMAIN current.nodes
                           THEN current.nodes[key] ELSE new_directory
                  r     == remove_node_from(child, Tail(comps), path)
              IN  [ok |-> r.ok, err |-> r.err,
                   node |-> [current EXCEPT !.nodes = MapInsert(@, key, r.node)],
                   removed |-> r.removed]
         ELSE [ok |-> FALSE, err |-> "Parent is not a directory", node |-> current,
               removed |-> None]

\* result: ok, err, the file system after the call and the removed node
remove_node(fs, path) ==
    IF is_none(parent(path))
    THEN [ok |-> FALSE, err |-> "Invalid path", fs |-> fs, removed |-> None]
    ELSE LET r == remove_node_from(fs.root, skip1(unwrap(parent(path))), path)
         IN  [ok |-> r.ok, err |-> r.err, fs |-> [root |-> r.node],
              removed |-> r.removed]

\* mutant of mkdir: the parent must exist already
mkdir_no_parents(fs, path) ==
    IF /\ is_some(parent(path))
       /\ ~get_node(fs, unwrap(parent(path))).ok
    THEN [ok |-> FALSE, err |-> "Path not found", fs |-> fs]
    ELSE insert_node(fs, path, new_directory)

\* mutant of mkdir: a directory that is already there is kept
mkdir_keep_existing(fs, path) ==
    IF /\ is_some(file_name(path))
       /\ get_node(fs, path).ok
       /\ is_directory(unwrap(get_node(fs, path).val))
    THEN [ok |-> TRUE, err |-> "", fs |-> fs]
    ELSE insert_node(fs, path, new_directory)

mkdir(fs, path) == insert_node(fs, path, new_directory)

\* result: ok, err, the file system after the call and the final path
\* mutant of create_file_from_node: the extension is inferred from the
\* content type even when the file name has one already
create_file_from_node_always_infers(fs, path, file_node) ==
    LET final ==
            IF is_some(file_mime_type(file_node))
            THEN LET mime == unwrap(file_mime_type(file_node))
                     ext  == IF starts_with_tg_prefix(mime) THEN mime
                             ELSE IF is_some(mime2ext(mime))
                                  THEN unwrap(mime2ext(mime)) ELSE <<>>
                 IN  with_extension(path, ext)
            ELSE path
        r == insert_node(fs, final, file_node)
    IN  [ok |-> r.ok, err |-> r.err, fs |-> r.fs,
         path |-> IF r.ok THEN Some(final) ELSE None]

create_file_from_node(fs, path, file_node) ==
    LET final ==
            IF is_none(extension(path)) /\ is_some(file_mime_type(file_node))
            THEN LET mime == unwrap(file_mime_type(file_node))
                     ext  == IF starts_with_tg_prefix(mime) THEN mime
                             ELSE IF is_some(mime2ext(mime))
                                  THEN unwrap(mime2ext(mime)) ELSE <<>>
                 IN  with_extension(path, ext)
            ELSE path
        r == insert_node(fs, final, file_node)
    IN  [ok |-> r.ok, err |-> r.err, fs |-> r.fs,
         path |-> IF r.ok THEN Some(final) ELSE None]

\* mutant of mv: the node is inserted at `to` without being removed at `from`
mv_without_remove(fs, from, to) ==
    LET r == remove_node(fs, from)
    IN  IF ~r.ok THEN [ok |-> FALSE, err |-> r.err, fs |-> r.fs]
        ELSE insert_node(fs, to, unwrap(r.removed))

mv(fs, from, to) ==
    LET r == remove_node(fs, from)
    IN  IF ~r.ok THEN [ok |-> FALSE, err |-> r.err, fs |-> r.fs]
        ELSE insert_node(r.fs, to, unwrap(r.removed))

\* KeyboardDirectoryBuilder::new: fails when the path does not resolve to a
\* directory; the buttons are the parent button and one button per directory
KeyboardDirectoryBuilder_new(fs, current_path) ==
    LET n == get_node(fs, current_path)
    IN  IF ~n.ok THEN Err(n.err)
        ELSE LET d == ls_directories(unwrap(n.val))
             IN  IF ~d.ok THEN Err(d.err)
                 ELSE Ok([parent_button |-> current_path # root_path,
                          paths |-> {join(current_path, k) : k \in unwrap(d.val)},
                          current_node |-> unwrap(n.val)])

\* KeyboardDirectoryBuilder::with_files on a built keyboard
with_files(kb) ==
    LET f == ls_files(kb.current_node)
    IN  IF ~f.ok THEN Err(f.err) ELSE Ok(kb)

\* the lexemes of segment names in byte order ('+' < '.' < '/' < upper case
\* < lower case); no lexeme is a prefix of another, so comparing names lexeme
\* by lexeme is comparing them byte by byte
LexemeOrder ==
    <<"+", DOT, SEP, "Documents", "Images", "Trash", "Videos", "a", "b",
      "image", "jpeg", "jpg", "plain", "png", "text", "tg+", "txt">>

LexemeRank(x) == CHOOSE i \in 1..Len(LexemeOrder) : LexemeOrder[i] = x

\* Ord for the keys of FileSystemNodes (BTreeMap<PathBuf, FileSystemNode>)
RECURSIVE key_lt(_, _)
key_lt(x, y) ==
    IF x = <<>> THEN y # <<>>
    ELSE IF y = <<>> THEN FALSE
    ELSE IF Head(x) = Head(y) THEN key_lt(Tail(x), Tail(y))
    ELSE LexemeRank(Head(x)) < LexemeRank(Head(y))

\* the keys of a BTreeMap in iteration order
RECURSIVE btree_keys(_)
btree_keys(S) ==
    IF S = {} THEN <<>>
    ELSE LET first == CHOOSE k \in S : \A j \in S \ {k} : key_lt(k, j)
         IN  <<first>> \o btree_keys(S \ {first})

\* mutant of FileSystemNode_ls: the keys in insertion-independent but
\* descending order
FileSystemNode_ls_descending(node) ==
    IF is_directory(node)
    THEN LET k == btree_keys(DOMAIN node.nodes)
         IN  Ok([i \in 1..Len(k) |-> k[Len(k) + 1 - i]])
    ELSE Err("Not a directory")

\* FileSystemNode::ls
FileSystemNode_ls(node) ==
    IF is_directory(node) THEN Ok(btree_keys(DOMAIN node.nodes))
    ELSE Err("Not a directory")

\* FileSystem::ls
ls(fs, path) ==
    LET n == get_node(fs, path)
    IN  IF ~n.ok THEN Err(n.err)
        ELSE IF is_directory(unwrap(n.val)) THEN FileSystemNode_ls(unwrap(n.val))
        ELSE Err("Not a directory")

\* FileSystem::new
FileSystem_new == [root |-> new_directory]

----------------------------------------------------------------------------
(* ChatSessionAction, ChatSession and Command *)

DirectoryName == "DirectoryName"
FileName == "FileName"

Action(tag, wait, node, path) ==
    [tag |-> tag, wait |-> wait, node |-> node, path |-> path]

MkDir(wait) == Action("MkDir", wait, None, None)
SaveFile(node, wait) == Action("SaveFile", wait, node, None)
CurrentDir == Action("CurrentDir", None, None, None)
ParentDir == Action("ParentDir", None, None, None)
DeleteDir == Action("DeleteDir", None, None, None)
Explorer == Action("Explorer", None, None, None)
RenameFile(wait) == Action("RenameFile", wait, None, None)
MoveFile(from) == Action("MoveFile", None, None, from)
DeleteFile == Action("DeleteFile", None, None, None)
FileOrDir(path) == Action("FileOrDir", None, None, Some(path))
Back == Action("Back", None, None, None)

\* mutant of ChatSessionAction_to_string: the token of MkDir tells whether a
\* name is awaited
ChatSessionAction_to_string_with_wait(a) ==
    CASE a.tag = "MkDir"      -> IF is_some(a.wait)
                                 THEN <<"mkdir-action", DOT, unwrap(a.wait)>>
                                 ELSE <<"mkdir-action">>
      [] a.tag = "SaveFile"   -> <<"save-file-action">>
      [] a.tag = "CurrentDir" -> <<DOT>>
      [] a.tag = "ParentDir"  -> <<DOT, DOT>>
      [] a.tag = "DeleteDir"  -> <<"delete-dir-action">>
      [] a.tag = "Explorer"   -> <<"explorer-action">>
      [] a.tag = "RenameFile" -> <<"rename-file-action">>
      [] a.tag = "MoveFile"   -> <<"move-file-action">>
      [] a.tag = "DeleteFile" -> <<"delete-file-action">>
      [] a.tag = "FileOrDir"  -> to_string_lossy(unwrap(a.path))
      [] a.tag = "Back"       -> <<"back-action">>

\* impl fmt::Display for ChatSessionAction
ChatSessionAction_to_string(a) ==
    CASE a.tag = "MkDir"      -> <<"mkdir-action">>
      [] a.tag = "SaveFile"   -> <<"save-file-action">>
      [] a.tag = "CurrentDir" -> <<DOT>>
      [] a.tag = "ParentDir"  -> <<DOT, DOT>>
      [] a.tag = "DeleteDir"  -> <<"delete-dir-action">>
      [] a.tag = "Explorer"   -> <<"explorer-action">>
      [] a.tag = "RenameFile" -> <<"rename-file-action">>
      [] a.tag = "MoveFile"   -> <<"move-file-action">>
      [] a.tag = "DeleteFile" -> <<"delete-file-action">>
      [] a.tag = "FileOrDir"  -> to_string_lossy(unwrap(a.path))
      [] a.tag = "Back"       -> <<"back-action">>

\* mutant of ChatSessionAction_from: the token of Back is not a keyword
ChatSessionAction_from_without_back(val) ==
    CASE val = <<"mkdir-action">>       -> MkDir(None)
      [] val = <<"save-file-action">>   -> SaveFile(None, None)
      [] val = <<DOT>>                  -> CurrentDir
      [] val = <<DOT, DOT>>             -> ParentDir
      [] val = <<"delete-dir-action">>  -> DeleteDir
      [] val = <<"explorer-action">>    -> Explorer
      [] val = <<"rename-file-action">> -> RenameFile(None)
      [] val = <<"move-file-action">>   -> MoveFile(None)
      [] val = <<"delete-file-action">> -> DeleteFile
      [] OTHER                          -> FileOrDir(PathBuf_from(val))

\* impl From<String> for ChatSessionAction
ChatSessionAction_from(val) ==
    CASE val = <<"mkdir-action">>       -> MkDir(None)
      [] val = <<"save-file-action">>   -> SaveFile(None, None)
      [] val = <<DOT>>                  -> CurrentDir
      [] val = <<DOT, DOT>>             -> ParentDir
      [] val = <<"delete-dir-action">>  -> DeleteDir
      [] val = <<"explorer-action">>    -> Explorer
      [] val = <<"rename-file-action">> -> RenameFile(None)
      [] val = <<"move-file-action">>   -> MoveFile(None)
      [] val = <<"delete-file-action">> -> DeleteFile
      [] val = <<"back-action">>        -> Back
      [] OTHER                          -> FileOrDir(PathBuf_from(val))

\* impl Default for ChatSession
DefaultChatSession == [current_path |-> root_path, action |-> None]

\* mutant of set_action: the path an action carries is dropped
set_action_without_source(cs, action) ==
    [cs EXCEPT !.action = Some([action EXCEPT !.path = None])]

set_action(cs, action) == [cs EXCEPT !.action = Some(action)]
clear_action(cs) == [cs EXCEPT !.action = None]

\* mutant of set_current_path_panics: every path is accepted
set_current_path_never_panics(path) == FALSE

\* ChatSession::set_current_path panics on a path that is not absolute
set_current_path_panics(path) == ~is_absolute(path)
\* mutant of set_current_path: the current path becomes the root
set_current_path_to_root(cs, path) == [cs EXCEPT !.current_path = root_path]

set_current_path(cs, path) == [cs EXCEPT !.current_path = path]

\* mutant of reset: only the action is cleared
reset_keeps_path(cs) == clear_action(cs)

reset(cs) == [set_current_path(cs, root_path) EXCEPT !.action = None]

\* impl TryFrom<Message> for Command: the text of a message whose first
\* entity is a bot command
Command_try_from(msg) ==
    IF is_none(msg.text) THEN Err("No text in message")
    ELSE IF ~msg.bot_command THEN Err("No bot command in message")
    ELSE LET command == unwrap(msg.text)
         IN  CASE command = <<SEP, "start">>       -> Ok("Start")
               [] command = <<SEP, "help">>        -> Ok("Help")
               [] command = <<SEP, "info">>        -> Ok("Info")
               [] command = <<SEP, "mkdir">>       -> Ok("MkDir")
               [] command = <<SEP, "explorer">>    -> Ok("Explorer")
               [] command = <<SEP, "rename_file">> -> Ok("RenameFile")
               [] command = <<SEP, "move_file">>   -> Ok("MoveFile")
               [] command = <<SEP, "delete_dir">>  -> Ok("DeleteDir")
               [] command = <<SEP, "delete_file">> -> Ok("DeleteFile")
               [] OTHER                            -> Err("Unknown command")

----------------------------------------------------------------------------
(* The outcome of a handler's closure: res is "Ok", "Err" or "Panic"; cs and
   fs are the session and the file system when the closure ends; branch names
   the arm of the handler that ran; reply_to is the message the response
   replies to *)

Out(res, cs, fs, err, branch, reply_to) ==
    [res |-> res, cs |-> cs, fs |-> fs, err |-> err, branch |-> branch,
     reply_to |-> reply_to]

OutOk(cs, fs, branch) == Out("Ok", cs, fs, "", branch, None)
\* mutant of OutErr: a turn that fails ends with the default file system
OutErr_fresh_namespace(cs, fs, err, branch) ==
    Out("Err", cs, DefaultFileSystem, err, branch, None)

OutErr(cs, fs, err, branch) == Out("Err", cs, fs, err, branch, None)
OutPanic(cs, fs, err, branch) == Out("Panic", cs, fs, err, branch, None)

\* KeyboardDirectoryBuilder::new(fs, path)?.with_current_dir_button().build()
keyboard_with_current_dir(fs, path) == KeyboardDirectoryBuilder_new(fs, path)

\* KeyboardDirectoryBuilder::new(fs, path)?.with_files()?.build()
keyboard_with_files(fs, path) ==
    LET kb == KeyboardDirectoryBuilder_new(fs, path)
    IN  IF ~kb.ok THEN kb ELSE with_files(unwrap(kb.val))

action_not_supported_error(cs, fs, branch) ==
    OutErr(cs, fs, "current action not supported by this action", branch)

\* mutant of with_clear_action_on_error: the action is never cleared
with_clear_action_on_error_never(out) == out

\* with_clear_action_on_error applied to the outcome of the closure
with_clear_action_on_error(out) ==
    IF out.res = "Err" THEN [out EXCEPT !.cs = clear_action(@)] ELSE out

\* mutant of process_file_message: the session is not reset first
process_file_message_in_place(chat_session, fs, message_id, file_size, mime_type) ==
    LET size      == IF is_some(file_size) THEN unwrap(file_size) ELSE 0
        file_node == new_file(message_id, size, mime_type)
        cs1       == set_action(chat_session, SaveFile(Some(file_node), None))
        kb        == keyboard_with_current_dir(fs, cs1.current_path)
    IN  IF ~kb.ok THEN OutErr(cs1, fs, kb.err, "process_file_message")
        ELSE OutOk(cs1, fs, "process_file_message")

process_file_message(chat_session, fs, message_id, file_size, mime_type) ==
    LET size      == IF is_some(file_size) THEN unwrap(file_size) ELSE 0
        file_node == new_file(message_id, size, mime_type)
        cs1       == set_action(reset(chat_session), SaveFile(Some(file_node), None))
        kb        == keyboard_with_current_dir(fs, cs1.current_path)
    IN  IF ~kb.ok THEN OutErr(cs1, fs, kb.err, "process_file_message")
        ELSE OutOk(cs1, fs, "process_file_message")

----------------------------------------------------------------------------
(* handle_update_content_message: the closure given to
   with_clear_action_on_error *)

\* mutant of command_closure: the session is not reset before the command
command_closure_no_reset(cs, fs, command) ==
    CASE command = "MkDir"      -> OutOk(set_action(cs, MkDir(None)), fs, "command_mkdir")
      [] command = "Explorer"   -> OutOk(set_action(cs, Explorer), fs, "command_explorer")
      [] command = "RenameFile" ->
            OutOk(set_action(cs, RenameFile(None)), fs, "command_rename_file")
      [] command = "MoveFile"   ->
            OutOk(set_action(cs, MoveFile(None)), fs, "command_move_file")
      [] OTHER                  -> OutOk(cs, fs, "command_text")

\* Ok(command) => { cs.reset(); match command { ... } }
command_closure(cs, fs, command) ==
    LET cs1 == reset(cs)
    IN  CASE command \in {"Start", "Help", "Info"} ->
                OutOk(cs1, fs, "command_text")
          [] command = "MkDir" ->
                LET cs2 == set_action(cs1, MkDir(None))
                    kb  == keyboard_with_current_dir(fs, cs2.current_path)
                IN  IF ~kb.ok THEN OutErr(cs2, fs, kb.err, "command_mkdir")
                    ELSE OutOk(cs2, fs, "command_mkdir")
          [] command = "Explorer" ->
                LET cs2 == set_action(cs1, Explorer)
                    kb  == keyboard_with_files(fs, cs2.current_path)
                IN  IF ~kb.ok THEN OutErr(cs2, fs, kb.err, "command_explorer")
                    ELSE OutOk(cs2, fs, "command_explorer")
          [] command = "RenameFile" ->
                LET cs2 == set_action(cs1, RenameFile(None))
                    kb  == keyboard_with_files(fs, cs2.current_path)
                IN  IF ~kb.ok THEN OutErr(cs2, fs, kb.err, "command_rename_file")
                    ELSE OutOk(cs2, fs, "command_rename_file")
          [] command = "MoveFile" ->
                LET cs2 == set_action(cs1, MoveFile(None))
                    kb  == keyboard_with_files(fs, cs2.current_path)
                IN  IF ~kb.ok THEN OutErr(cs2, fs, kb.err, "command_move_file")
                    ELSE OutOk(cs2, fs, "command_move_file")
          [] command \in {"DeleteDir", "DeleteFile"} ->
                OutOk(cs1, fs, "command_coming_soon")

\* mutant of mkdir_reply: the directory is made at the root, whatever the
\* current path
mkdir_reply_at_root(cs, fs, text) ==
    LET r == mkdir(fs, join(root_path, text))
    IN  IF ~r.ok THEN OutErr(cs, r.fs, r.err, "mkdir_reply")
        ELSE OutOk(reset(cs), r.fs, "mkdir_reply")

\* ChatSessionAction::MkDir(Some(ChatSessionWaitReply::DirectoryName)) => ...
mkdir_reply(cs, fs, text) ==
    LET dir_path == join(cs.current_path, text)
        r        == mkdir(fs, dir_path)
    IN  IF ~r.ok THEN OutErr(cs, r.fs, r.err, "mkdir_reply")
        ELSE OutOk(reset(cs), r.fs, "mkdir_reply")

\* mutant of save_file_reply: the File stored has the message id and the
\* content type of the captured node, and no size
save_file_reply_without_size(cs, fs, text, file_node) ==
    LET dir_path  == cs.current_path
        file_path == join(dir_path, text)
        r         == create_file_from_node(
                         fs, file_path,
                         new_file(file_node.message_id, 0, file_node.mime_type))
    IN  IF ~r.ok THEN OutErr(cs, r.fs, r.err, "save_file_reply")
        ELSE IF is_none(file_name(unwrap(r.path)))
        THEN OutPanic(cs, r.fs, "unwrap on None", "save_file_reply")
        ELSE OutOk(cs, r.fs, "save_file_reply")

\* ChatSessionAction::SaveFile(Some(file_node), Some(FileName)) => ...
save_file_reply(cs, fs, text, file_node) ==
    LET dir_path  == cs.current_path
        file_path == join(dir_path, text)
        r         == create_file_from_node(fs, file_path, file_node)
    IN  IF ~r.ok THEN OutErr(cs, r.fs, r.err, "save_file_reply")
        ELSE IF is_none(file_name(unwrap(r.path)))
        THEN OutPanic(cs, r.fs, "unwrap on None", "save_file_reply")
        ELSE OutOk(cs, r.fs, "save_file_reply")

\* ChatSessionAction::RenameFile(Some(ChatSessionWaitReply::FileName)) => ...
rename_file_reply(cs, fs, text) ==
    LET from_path == cs.current_path
        to_path   == set_file_name(from_path, text)
        r         == mv(fs, from_path, to_path)
    IN  IF ~r.ok THEN OutErr(cs, r.fs, r.err, "rename_file_reply")
        ELSE IF is_none(file_name(from_path)) \/ is_none(parent(from_path))
        THEN OutPanic(cs, r.fs, "unwrap on None", "rename_file_reply")
        ELSE OutOk(cs, r.fs, "rename_file_reply")

\* if let Some(text) = msg.text { return match cs.action() { ... } }
text_closure(cs, fs, msg, text) ==
    IF is_some(cs.action)
    THEN LET current_action == unwrap(cs.action)
         IN  CASE current_action = MkDir(Some(DirectoryName)) ->
                     mkdir_reply(cs, fs, text)
               [] /\ current_action.tag = "SaveFile"
                  /\ is_some(current_action.node)
                  /\ current_action.wait = Some(FileName) ->
                     save_file_reply(cs, fs, text, unwrap(current_action.node))
               [] current_action = RenameFile(Some(FileName)) ->
                     rename_file_reply(cs, fs, text)
               [] OTHER -> OutOk(cs, fs, "text_generic_error")
    ELSE process_file_message(cs, fs, msg.message_id, Some(Len(text)),
                              Some(TgMime("text")))

\* the file size and mime type process_file_message gets for an attachment
attachment_mime_type(att) ==
    CASE att.kind \in {"document", "video", "audio", "voice"} -> att.mime_type
      [] att.kind = "photo"      -> Some(<<"jpeg">>)
      [] att.kind = "video_note" -> Some(TgMime("video_note"))
      [] att.kind = "sticker"    -> Some(TgMime("sticker"))
      [] att.kind = "contact"    -> Some(TgMime("contact"))

attachment_file_size(att) ==
    IF att.kind = "contact" THEN None ELSE att.file_size

\* mutant of message_closure: an attachment starts the save flow only while
\* no action is pending
message_closure_attachment_when_idle(cs, fs, msg) ==
    LET command == Command_try_from(msg)
    IN  IF command.ok THEN command_closure(cs, fs, unwrap(command.val))
        ELSE IF is_some(msg.text) THEN text_closure(cs, fs, msg, unwrap(msg.text))
        ELSE IF is_some(msg.attachment) /\ is_none(cs.action)
        THEN process_file_message(cs, fs, msg.message_id,
                                  attachment_file_size(unwrap(msg.attachment)),
                                  attachment_mime_type(unwrap(msg.attachment)))
        ELSE OutOk(cs, fs, "message_generic_error")

message_closure(cs, fs, msg) ==
    LET command == Command_try_from(msg)
    IN  IF command.ok THEN command_closure(cs, fs, unwrap(command.val))
        ELSE IF is_some(msg.text) THEN text_closure(cs, fs, msg, unwrap(msg.text))
        ELSE IF is_some(msg.attachment)
        THEN process_file_message(cs, fs, msg.message_id,
                                  attachment_file_size(unwrap(msg.attachment)),
                                  attachment_mime_type(unwrap(msg.attachment)))
        ELSE OutOk(cs, fs, "message_generic_error")

----------------------------------------------------------------------------
(* handle_update_content_callback_query: the closure given to
   with_clear_action_on_error *)

\* mutant of navigate: the current path is left as it was
navigate_in_place(cs, fs, path, kb, branch) ==
    IF set_current_path_panics(path)
    THEN OutPanic(cs, fs, "Path is not absolute", branch)
    ELSE IF ~kb.ok THEN OutErr(cs, fs, kb.err, branch)
         ELSE OutOk(cs, fs, branch)

\* cs.set_current_path(path); then the keyboard `kb`, built with `?`
navigate(cs, fs, path, kb, branch) ==
    IF set_current_path_panics(path)
    THEN OutPanic(cs, fs, "Path is not absolute", branch)
    ELSE LET cs1 == set_current_path(cs, path)
         IN  IF ~kb.ok THEN OutErr(cs1, fs, kb.err, branch)
             ELSE OutOk(cs1, fs, branch)

\* ChatSessionAction::CurrentDir => match current_action { ... }
current_dir_closure(cs, fs, current_action) ==
    CASE current_action = MkDir(None) ->
            OutOk(set_action(cs, MkDir(Some(DirectoryName))), fs, "here_mkdir")
      [] /\ current_action.tag = "SaveFile"
         /\ is_some(current_action.node)
         /\ current_action.wait = None ->
            OutOk(set_action(cs, SaveFile(current_action.node, Some(FileName))),
                  fs, "here_save_file")
      [] current_action.tag = "MoveFile" /\ is_some(current_action.path) ->
            LET from_path == unwrap(current_action.path)
            IN  IF is_none(file_name(from_path))
                THEN OutPanic(cs, fs, "unwrap on None", "here_move_file")
                ELSE LET to_path == join(cs.current_path,
                                         unwrap(file_name(from_path)))
                         r       == mv(fs, from_path, to_path)
                     IN  IF ~r.ok THEN OutErr(cs, r.fs, r.err, "here_move_file")
                         ELSE OutOk(cs, r.fs, "here_move_file")
      [] OTHER -> action_not_supported_error(cs, fs, "here_unsupported")

\* mutant of parent_dir_closure: ".." leads to the current path itself
parent_dir_closure_in_place(cs, fs, current_action) ==
    LET current_path == cs.current_path
        parent_path  == current_path
    IN  CASE current_action = Explorer ->
                LET node == get_node(fs, parent_path)
                IN  IF ~node.ok THEN OutErr(cs, fs, node.err, "parent_explorer")
                    ELSE IF is_directory(unwrap(node.val))
                    THEN navigate(cs, fs, parent_path,
                                  keyboard_with_files(fs, parent_path),
                                  "parent_explorer")
                    ELSE OutErr(cs, fs, "Parent is not a directory",
                                "parent_explorer")
          [] current_action.tag = "MkDir" ->
                navigate(cs, fs, parent_path,
                         keyboard_with_current_dir(fs, parent_path), "parent_mkdir")
          [] /\ current_action.tag = "SaveFile"
             /\ is_some(current_action.node)
             /\ current_action.wait = None ->
                navigate(cs, fs, parent_path,
                         keyboard_with_current_dir(fs, parent_path),
                         "parent_save_file")
          [] current_action.tag = "RenameFile" ->
                navigate(cs, fs, parent_path,
                         keyboard_with_files(fs, parent_path), "parent_rename_file")
          [] current_action.tag = "MoveFile" ->
                navigate(cs, fs, parent_path,
                         IF is_some(current_action.path)
                         THEN keyboard_with_current_dir(fs, parent_path)
                         ELSE keyboard_with_files(fs, parent_path),
                         "parent_move_file")
          [] OTHER -> action_not_supported_error(cs, fs, "parent_unsupported")

\* ChatSessionAction::ParentDir => { ... match current_action { ... } }
parent_dir_closure(cs, fs, current_action) ==
    LET current_path == cs.current_path
        parent_path  == IF is_some(parent(current_path))
                        THEN unwrap(parent(current_path)) ELSE root_path
    IN  CASE current_action = Explorer ->
                LET node == get_node(fs, parent_path)
                IN  IF ~node.ok THEN OutErr(cs, fs, node.err, "parent_explorer")
                    ELSE IF is_directory(unwrap(node.val))
                    THEN navigate(cs, fs, parent_path,
                                  keyboard_with_files(fs, parent_path),
                                  "parent_explorer")
                    ELSE OutErr(cs, fs, "Parent is not a directory",
                                "parent_explorer")
          [] current_action.tag = "MkDir" ->
                navigate(cs, fs, parent_path,
                         keyboard_with_current_dir(fs, parent_path), "parent_mkdir")
          [] /\ current_action.tag = "SaveFile"
             /\ is_some(current_action.node)
             /\ current_action.wait = None ->
                navigate(cs, fs, parent_path,
                         keyboard_with_current_dir(fs, parent_path),
                         "parent_save_file")
          [] current_action.tag = "RenameFile" ->
                navigate(cs, fs, parent_path,
                         keyboard_with_files(fs, parent_path), "parent_rename_file")
          [] current_action.tag = "MoveFile" ->
                navigate(cs, fs, parent_path,
                         IF is_some(current_action.path)
                         THEN keyboard_with_current_dir(fs, parent_path)
                         ELSE keyboard_with_files(fs, parent_path),
                         "parent_move_file")
          [] OTHER -> action_not_supported_error(cs, fs, "parent_unsupported")

\* ChatSessionAction::FileOrDir(path) => match current_action { ... }
file_or_dir_closure(cs, fs, path, current_action) ==
    CASE current_action = Explorer ->
            LET node == get_node(fs, path)
            IN  IF ~node.ok THEN OutErr(cs, fs, node.err, "path_explorer")
                ELSE IF is_directory(unwrap(node.val))
                THEN navigate(cs, fs, path, keyboard_with_files(fs, path),
                              "path_explorer")
                ELSE IF is_none(file_message_id(unwrap(node.val)))
                THEN OutErr(cs, fs, "Message id not found", "path_explorer_file")
                ELSE IF is_none(file_name(path))
                THEN OutErr(cs, fs, "File name not found", "path_explorer_file")
                ELSE Out("Ok", cs, fs, "", "path_explorer_file",
                         file_message_id(unwrap(node.val)))
      [] current_action.tag = "MkDir" ->
            navigate(cs, fs, path, keyboard_with_current_dir(fs, path),
                     "path_mkdir")
      [] /\ current_action.tag = "SaveFile"
         /\ is_some(current_action.node)
         /\ current_action.wait = None ->
            navigate(cs, fs, path, keyboard_with_current_dir(fs, path),
                     "path_save_file")
      [] current_action = RenameFile(None) ->
            LET node == get_node(fs, path)
            IN  IF ~node.ok THEN OutErr(cs, fs, node.err, "path_rename_file")
                ELSE IF is_directory(unwrap(node.val))
                THEN navigate(cs, fs, path, keyboard_with_files(fs, path),
                              "path_rename_file")
                ELSE IF is_none(file_message_id(unwrap(node.val)))
                THEN OutErr(cs, fs, "Message id not found", "path_rename_file_file")
                ELSE IF is_none(file_name(path))
                THEN OutErr(cs, fs, "File name not found", "path_rename_file_file")
                ELSE IF set_current_path_panics(path)
                THEN OutPanic(cs, fs, "Path is not absolute", "path_rename_file_file")
                ELSE Out("Ok",
                         set_action(set_current_path(cs, path),
                                    RenameFile(Some(FileName))),
                         fs, "", "path_rename_file_file",
                         file_message_id(unwrap(node.val)))
      [] current_action.tag = "MoveFile" ->
            LET node == get_node(fs, path)
            IN  IF ~node.ok THEN OutErr(cs, fs, node.err, "path_move_file")
                ELSE IF is_directory(unwrap(node.val))
                THEN navigate(cs, fs, path,
                              IF is_some(current_action.path)
                              THEN keyboard_with_current_dir(fs, path)
                              ELSE keyboard_with_files(fs, path),
                              "path_move_file")
                ELSE IF is_none(file_message_id(unwrap(node.val)))
                THEN OutErr(cs, fs, "Message id not found", "path_move_file_file")
                ELSE LET cs1 == set_current_path(cs, root_path)
                         kb  == keyboard_with_current_dir(fs, cs1.current_path)
                     IN  IF ~kb.ok
                         THEN OutErr(cs1, fs, kb.err, "path_move_file_file")
                         ELSE Out("Ok", set_action(cs1, MoveFile(Some(path))), fs,
                                  "", "path_move_file_file",
                                  file_message_id(unwrap(node.val)))
      [] OTHER -> action_not_supported_error(cs, fs, "path_unsupported")

\* mutant of back_closure: stepping back from the file name prompt drops the
\* captured file node
back_closure_forgets_node(cs, fs, current_action) ==
    CASE current_action.tag = "MkDir" /\ is_some(current_action.wait) ->
            LET cs1 == set_action(cs, MkDir(None))
                kb  == keyboard_with_current_dir(fs, cs1.current_path)
            IN  IF ~kb.ok THEN OutErr(cs1, fs, kb.err, "back_mkdir")
                ELSE OutOk(cs1, fs, "back_mkdir")
      [] /\ current_action.tag = "SaveFile"
         /\ is_some(current_action.node)
         /\ is_some(current_action.wait) ->
            LET cs1 == set_action(cs, SaveFile(None, None))
                kb  == keyboard_with_current_dir(fs, cs1.current_path)
            IN  IF ~kb.ok THEN OutErr(cs1, fs, kb.err, "back_save_file")
                ELSE OutOk(cs1, fs, "back_save_file")
      [] OTHER -> action_not_supported_error(cs, fs, "back_unsupported")

\* ChatSessionAction::Back => match current_action { ... }
back_closure(cs, fs, current_action) ==
    CASE current_action.tag = "MkDir" /\ is_some(current_action.wait) ->
            LET cs1 == set_action(cs, MkDir(None))
                kb  == keyboard_with_current_dir(fs, cs1.current_path)
            IN  IF ~kb.ok THEN OutErr(cs1, fs, kb.err, "back_mkdir")
                ELSE OutOk(cs1, fs, "back_mkdir")
      [] /\ current_action.tag = "SaveFile"
         /\ is_some(current_action.node)
         /\ is_some(current_action.wait) ->
            LET cs1 == set_action(cs, SaveFile(current_action.node, None))
                kb  == keyboard_with_current_dir(fs, cs1.current_path)
            IN  IF ~kb.ok THEN OutErr(cs1, fs, kb.err, "back_save_file")
                ELSE OutOk(cs1, fs, "back_save_file")
      [] OTHER -> action_not_supported_error(cs, fs, "back_unsupported")

callback_query_closure(cs, fs, query) ==
    IF is_none(query.data)
    THEN OutErr(cs, fs, "Data not found in callback query", "no_data")
    ELSE IF is_none(query.message)
    THEN OutErr(cs, fs, "Message not found in callback query", "no_message")
    ELSE IF is_none(cs.action)
    THEN OutErr(cs, fs, "UpdateContent::CallbackQuery: No action in chat session",
                "no_action")
    ELSE LET action         == ChatSessionAction_from(unwrap(query.data))
             current_action == unwrap(cs.action)
         IN  CASE action.tag = "CurrentDir" ->
                     current_dir_closure(cs, fs, current_action)
               [] action.tag = "ParentDir" ->
                     parent_dir_closure(cs, fs, current_action)
               [] action.tag = "FileOrDir" ->
                     file_or_dir_closure(cs, fs, unwrap(action.path), current_action)
               [] action.tag = "Back" ->
                     back_closure(cs, fs, current_action)
               [] OTHER -> OutErr(cs, fs, "invalid action", "invalid_action")

----------------------------------------------------------------------------
(* The repositories and the turns *)

VARIABLES
    chat_session,   \* ChatSessionMemory: ChatId -> ChatSession
    filesystem,     \* FilesystemMemory: ChatId -> FileSystem
    last            \* the last turn: its chat, handler, input and outcome

vars == <<chat_session, filesystem, last>>

\* the most nodes (the root apart) a file system holds in the model
MaxNodes == 5

RECURSIVE NodeCount(_)
RECURSIVE NodeCountOf(_, _)
NodeCountOf(nodes, keys) ==
    IF keys = {} THEN 0
    ELSE LET k == CHOOSE x \in keys : TRUE
         IN  NodeCount(nodes[k]) + NodeCountOf(nodes, keys \ {k})
NodeCount(node) ==
    IF is_file(node) THEN 1 ELSE 1 + NodeCountOf(node.nodes, DOMAIN node.nodes)

ChatIds == {1}

Message(message_id, text, bot_command, attachment) ==
    [message_id |-> message_id, text |-> text, bot_command |-> bot_command,
     attachment |-> attachment]

Attachment(kind, file_size, mime_type) ==
    [kind |-> kind, file_size |-> file_size, mime_type |-> mime_type]

CommandTexts ==
    {<<SEP, "start">>, <<SEP, "help">>, <<SEP, "info">>, <<SEP, "mkdir">>,
     <<SEP, "explorer">>, <<SEP, "rename_file">>, <<SEP, "move_file">>,
     <<SEP, "delete_dir">>, <<SEP, "delete_file">>}

\* the free-form replies: a plain name, "..", and an absolute name
TextInputs == {<<"a">>, <<DOT, DOT>>, <<SEP, "b">>}

AttachmentInputs ==
    {Attachment("document", Some(3), Some(<<"image", SEP, "png">>)),
     Attachment("contact", None, None)}

Messages ==
    {Message(1, Some(t), TRUE, None) : t \in CommandTexts}
    \cup {Message(2, Some(t), FALSE, None) : t \in TextInputs}
    \cup {Message(3, None, FALSE, Some(a)) : a \in AttachmentInputs}
    \cup {Message(4, None, FALSE, None)}

\* the paths the callback data name, besides the tokens of the buttons
PathTokens ==
    {<<SEP>>, <<SEP, "Documents">>, <<SEP, "a">>, <<SEP, "a", DOT, "png">>,
     <<SEP, "a", DOT, "png", SEP, DOT, DOT>>, <<"Documents">>}

CallbackData ==
    {ChatSessionAction_to_string(a) :
        a \in {CurrentDir, ParentDir, Back, MkDir(None), Explorer}}
    \cup PathTokens

CallbackQuery(data, message) == [data |-> data, message |-> message]

CallbackQueries ==
    {CallbackQuery(Some(d), Some(5)) : d \in CallbackData}
    \cup {CallbackQuery(None, Some(5))}

\* ChatSessionServiceImpl::get_or_create_chat_session
get_or_create_chat_session(chat_id) ==
    IF chat_id \in DOMAIN chat_session THEN chat_session[chat_id]
    ELSE DefaultChatSession

\* mutant of get_or_create_filesystem: every load gives the default layout
get_or_create_filesystem_fresh(chat_id) == DefaultFileSystem

\* FilesystemServiceImpl::get_or_create_filesystem
get_or_create_filesystem(chat_id) ==
    IF chat_id \in DOMAIN filesystem THEN filesystem[chat_id]
    ELSE DefaultFileSystem

\* mutant of update_chat_session: the session is stored under every id that
\* has one, and under the id of the turn
update_chat_session_everywhere(sessions, chat_id, cs) ==
    [id \in DOMAIN sessions \cup {chat_id} |-> cs]

update_chat_session(sessions, chat_id, cs) == MapInsert(sessions, chat_id, cs)
\* mutant of update_filesystem: a file system that is already stored is kept
update_filesystem_unless_stored(filesystems, chat_id, fs) ==
    IF chat_id \in DOMAIN filesystems THEN filesystems
    ELSE MapInsert(filesystems, chat_id, fs)

update_filesystem(filesystems, chat_id, fs) == MapInsert(filesystems, chat_id, fs)

\* mutant of save_chat_session_and_filesystem: a file system that is already
\* stored is not written back
save_chat_session_only(sessions, filesystems, chat_id, cs, fs) ==
    [chat_session |-> update_chat_session(sessions, chat_id, cs),
     filesystem   |-> IF chat_id \in DOMAIN filesystems THEN filesystems
                      ELSE update_filesystem(filesystems, chat_id, fs)]

\* the two repositories after save_chat_session_and_filesystem
save_chat_session_and_filesystem(sessions, filesystems, chat_id, cs, fs) ==
    [chat_session |-> update_chat_session(sessions, chat_id, cs),
     filesystem   |-> update_filesystem(filesystems, chat_id, fs)]

\* the outcome of handle_update_content_message, before it is saved
handle_update_content_message(chat_id, msg) ==
    with_clear_action_on_error(
        message_closure(get_or_create_chat_session(chat_id),
                        get_or_create_filesystem(chat_id), msg))

\* the outcome of handle_update_content_callback_query, before it is saved
handle_update_content_callback_query(chat_id, query) ==
    with_clear_action_on_error(
        callback_query_closure(get_or_create_chat_session(chat_id),
                               get_or_create_filesystem(chat_id), query))

\* the end of a turn: a panic traps the call and nothing of the turn is
\* kept; otherwise the session and the file system are saved
EndTurn(chat_id, out) ==
    /\ NodeCount(out.fs.root) - 1 <= MaxNodes
    /\ IF out.res = "Panic"
       THEN UNCHANGED <<chat_session, filesystem>>
       ELSE LET saved == save_chat_session_and_filesystem(
                             chat_session, filesystem, chat_id, out.cs, out.fs)
            IN  /\ chat_session' = saved.chat_session
                /\ filesystem' = saved.filesystem

Init ==
    /\ chat_session = <<>>
    /\ filesystem = <<>>
    /\ last = [chat_id |-> 0, handler |-> "none", msg |-> None, query |-> None,
               res |-> "Ok", branch |-> "none", reply_to |-> None]

HandleUpdateContentMessage(chat_id, msg) ==
    LET out == handle_update_content_message(chat_id, msg)
    IN  /\ EndTurn(chat_id, out)
        /\ last' = [chat_id |-> chat_id, handler |-> "message", msg |-> Some(msg),
                    query |-> None, res |-> out.res, branch |-> out.branch,
                    reply_to |-> out.reply_to]

HandleUpdateContentCallbackQuery(chat_id, query) ==
    LET out == handle_update_content_callback_query(chat_id, query)
    IN  /\ EndTurn(chat_id, out)
        /\ last' = [chat_id |-> chat_id, handler |-> "callback_query",
                    msg |-> None, query |-> Some(query), res |-> out.res,
                    branch |-> out.branch, reply_to |-> out.reply_to]

Next ==
    \E chat_id \in ChatIds :
        \/ \E msg \in Messages : HandleUpdateContentMessage(chat_id, msg)
        \/ \E query \in CallbackQueries :
              HandleUpdateContentCallbackQuery(chat_id, query)

Spec == Init /\ [][Next]_vars

----------------------------------------------------------------------------
(* Properties. In an action formula the unprimed repositories are the state
   a turn loads and the primed ones the state it leaves; last' names the turn. *)

LoadedSession(chat_id) == get_or_create_chat_session(chat_id)
LoadedFileSystem(chat_id) == get_or_create_filesystem(chat_id)

Idle(cs) == cs.action = None
IdleAtRoot(cs) == cs = DefaultChatSession

\* the turn was a free-form text reply (a text that is no command)
IsTextReply(l) ==
    /\ l.handler = "message"
    /\ is_some(unwrap(l.msg).text)
    /\ ~Command_try_from(unwrap(l.msg)).ok

\* the turn was a command
IsCommand(l) == l.handler = "message" /\ Command_try_from(unwrap(l.msg)).ok

\* the turn was a button tap that carried callback data
IsButtonTap(l) == l.handler = "callback_query" /\ is_some(unwrap(l.query).data)

TapAction(l) == ChatSessionAction_from(unwrap(unwrap(l.query).data))

IsDirectoryAt(fs, path) ==
    get_node(fs, path).ok /\ is_directory(unwrap(get_node(fs, path).val))

IsFileAt(fs, path) ==
    get_node(fs, path).ok /\ is_file(unwrap(get_node(fs, path).val))

\* C1: whenever a turn ends in an error, the saved session has no pending
\* action and the current path it had before the turn.
C1_ErrorKeepsCurrentPath ==
    [][\A chat_id \in ChatIds :
          (last'.chat_id = chat_id /\ last'.res = "Err")
          => /\ chat_id \in DOMAIN chat_session'
             /\ chat_session'[chat_id].action = None
             /\ chat_session'[chat_id].current_path
                    = LoadedSession(chat_id).current_path]_vars

\* the (button, pending action) pairs handle_update_content_callback_query
\* has an arm for
HasArm(action, current) ==
    \/ /\ action.tag = "CurrentDir"
       /\ \/ current = MkDir(None)
          \/ current.tag = "SaveFile" /\ is_some(current.node) /\ is_none(current.wait)
          \/ current.tag = "MoveFile" /\ is_some(current.path)
    \/ /\ action.tag = "ParentDir"
       /\ \/ current.tag \in {"Explorer", "MkDir", "RenameFile", "MoveFile"}
          \/ current.tag = "SaveFile" /\ is_some(current.node) /\ is_none(current.wait)
    \/ /\ action.tag = "FileOrDir"
       /\ \/ current.tag \in {"Explorer", "MkDir", "MoveFile"}
          \/ current = RenameFile(None)
          \/ current.tag = "SaveFile" /\ is_some(current.node) /\ is_none(current.wait)
    \/ /\ action.tag = "Back"
       /\ \/ current.tag = "MkDir" /\ is_some(current.wait)
          \/ current.tag = "SaveFile" /\ is_some(current.node) /\ is_some(current.wait)

\* C2: a button tap in a state the handler has no arm for (the Idle state
\* included) is an error that leaves no pending action, the current path as
\* it was and the file system as it was.
C2_UnsupportedTap ==
    [][\A chat_id \in ChatIds :
          ( /\ last'.chat_id = chat_id
            /\ IsButtonTap(last')
            /\ \/ Idle(LoadedSession(chat_id))
               \/ ~HasArm(TapAction(last'), unwrap(LoadedSession(chat_id).action)) )
          => /\ last'.res = "Err"
             /\ chat_id \in DOMAIN chat_session'
             /\ chat_session'[chat_id]
                    = [current_path |-> LoadedSession(chat_id).current_path,
                       action |-> None]
             /\ chat_id \in DOMAIN filesystem'
             /\ filesystem'[chat_id] = LoadedFileSystem(chat_id)]_vars

\* C2 witness: Back was tapped away from the root in a state with no arm
\* for it, and the session is left without action at that path
C2_Witness ==
    /\ last.branch = "back_unsupported"
    /\ last.res = "Err"
    /\ chat_session[last.chat_id].action = None
    /\ chat_session[last.chat_id].current_path # root_path

\* the three states that await a name
NameAwaiting(a) ==
    \/ a = MkDir(Some(DirectoryName))
    \/ a.tag = "SaveFile" /\ is_some(a.node) /\ a.wait = Some(FileName)
    \/ a = RenameFile(Some(FileName))

\* C3: a text reply while an action is pending that awaits no name is an
\* error: no pending action is left and the current path is as it was.
C3_TextReplyElsewhereIsError ==
    [][\A chat_id \in ChatIds :
          ( /\ last'.chat_id = chat_id
            /\ IsTextReply(last')
            /\ ~Idle(LoadedSession(chat_id))
            /\ ~NameAwaiting(unwrap(LoadedSession(chat_id).action)) )
          => /\ last'.res = "Err"
             /\ chat_session'[chat_id].action = None
             /\ chat_session'[chat_id].current_path
                    = LoadedSession(chat_id).current_path]_vars

\* C4: a text reply in SaveFile(Some(node), Some(FileName)) that succeeds
\* creates the file at the final path of create_file_from_node and resets
\* the session to Idle at the root.
C4_SaveFileReplyResets ==
    [][\A chat_id \in ChatIds :
          ( /\ last'.chat_id = chat_id
            /\ last'.branch = "save_file_reply"
            /\ last'.res = "Ok" )
          => LET pre  == LoadedSession(chat_id)
                 made == create_file_from_node(
                             LoadedFileSystem(chat_id),
                             join(pre.current_path, unwrap(unwrap(last'.msg).text)),
                             unwrap(unwrap(pre.action).node))
             IN  /\ IsFileAt(filesystem'[chat_id], unwrap(made.path))
                 /\ IdleAtRoot(chat_session'[chat_id])]_vars

\* C5: SelectHere in MoveFile(Some(from)) that succeeds leaves the node at
\* current_path/basename(from) and resets the session to Idle at the root.
C5_MoveHereResets ==
    [][\A chat_id \in ChatIds :
          ( /\ last'.chat_id = chat_id
            /\ last'.branch = "here_move_file"
            /\ last'.res = "Ok" )
          => LET pre  == LoadedSession(chat_id)
                 from == unwrap(unwrap(pre.action).path)
                 to   == join(pre.current_path, unwrap(file_name(from)))
             IN  /\ get_node(filesystem'[chat_id], to)
                        = get_node(LoadedFileSystem(chat_id), from)
                 /\ IdleAtRoot(chat_session'[chat_id])]_vars

\* C6: after a successful rename (a text reply in RenameFile(Some(FileName)))
\* the session is Idle at the root.
C6_RenameReplyResets ==
    (last.branch = "rename_file_reply" /\ last.res = "Ok")
    => IdleAtRoot(chat_session[last.chat_id])

\* a single normal path segment
IsPlainName(s) ==
    /\ s \notin {CurDir, ParentDirComponent}
    /\ PathBuf_from(s) = [abs |-> FALSE, comps |-> <<s>>]

C8_AlwaysResponds == last.res \in {"Ok", "Err"}

\* the action a command leaves pending
CommandAction(command) ==
    CASE command = "MkDir"      -> Some(MkDir(None))
      [] command = "Explorer"   -> Some(Explorer)
      [] command = "RenameFile" -> Some(RenameFile(None))
      [] command = "MoveFile"   -> Some(MoveFile(None))
      [] OTHER                  -> None

\* C9: after any command the session is at the root with exactly the
\* command's payload-free action, and the file system is as it was.
C9_CommandResets ==
    [][\A chat_id \in ChatIds :
          (last'.chat_id = chat_id /\ IsCommand(last'))
          => /\ last'.res = "Ok"
             /\ chat_id \in DOMAIN chat_session'
             /\ chat_session'[chat_id]
                    = [current_path |-> root_path,
                       action |-> CommandAction(
                           unwrap(Command_try_from(unwrap(last'.msg)).val))]
             /\ chat_id \in DOMAIN filesystem'
             /\ filesystem'[chat_id] = LoadedFileSystem(chat_id)]_vars

\* C9 witness: the move-file command was handled in a file system that holds
\* a node besides the default layout
C9_Witness ==
    /\ IsCommand(last)
    /\ chat_session[last.chat_id]
           = [current_path |-> root_path, action |-> Some(MoveFile(None))]
    /\ NodeCount(filesystem[last.chat_id].root) > 5

\* the outcome of the turn that `l` names, from the state the turn loads
TurnOutcome(l) ==
    IF l.handler = "message"
    THEN handle_update_content_message(l.chat_id, unwrap(l.msg))
    ELSE handle_update_content_callback_query(l.chat_id, unwrap(l.query))

\* C10: after every turn that returns, the repositories hold the session and
\* the file system the handler ended with; after an error the stored session
\* has no pending action and the stored file system has the mutations made
\* before the error (a rename whose removal was done has lost its source).
C10_TurnIsPersisted ==
    [][\A chat_id \in ChatIds :
          (last'.chat_id = chat_id /\ last'.res \in {"Ok", "Err"})
          => LET out == TurnOutcome(last')
             IN  /\ chat_id \in DOMAIN chat_session'
                 /\ chat_id \in DOMAIN filesystem'
                 /\ chat_session'[chat_id] = out.cs
                 /\ filesystem'[chat_id] = out.fs
                 /\ last'.res = "Err"
                    => /\ chat_session'[chat_id].action = None
                       /\ ( /\ last'.branch = "rename_file_reply"
                            /\ remove_node(LoadedFileSystem(chat_id),
                                           LoadedSession(chat_id).current_path).ok )
                          => ~get_node(filesystem'[chat_id],
                                       LoadedSession(chat_id).current_path).ok]_vars

\* C10 witness: a rename failed after its removal was done, and the stored
\* file system is the default layout without the file
C10_Witness ==
    /\ last.branch = "rename_file_reply"
    /\ last.res = "Err"
    /\ chat_session[last.chat_id].action = None
    /\ NodeCount(filesystem[last.chat_id].root) = 5

----------------------------------------------------------------------------
(* The FileSystem type on its own: a file system value, starting from
   FileSystem::default(), to which mkdir, create_file_from_node, mv, get_node
   and ls are applied with paths and nodes from small sets.  `filesystem`
   holds the value under chat id 1, `last` records the call, its result and
   the value before the call. *)

MaxFsNodes == 3

P(s) == PathBuf_from(s)

FsPaths ==
    {P(<<SEP>>), P(<<SEP, "a">>), P(<<SEP, "b">>), P(<<SEP, "a", SEP, "b">>),
     P(<<SEP, "b", SEP, "a">>), P(<<SEP, "a", SEP, "b", SEP, "a">>),
     P(<<"a", SEP, "b">>),
     P(<<SEP, "a", SEP, DOT, DOT>>)}

FsFileNodes ==
    {new_file(1, 1, None), new_file(2, 3, Some(<<"image", SEP, "png">>))}

FsCall(op, path, to, node, ok, err, val, fs_before) ==
    [op |-> op, path |-> path, to |-> to, node |-> node, ok |-> ok,
     err |-> err, val |-> val, before |-> fs_before]

\* the call is made on the stored value, which keeps what the call did to it
\* whether the call returned Ok or Err
FsApply(fs_after, call) ==
    /\ NodeCount(fs_after.root) - NodeCount(DefaultFileSystem.root) <= MaxFsNodes
    /\ filesystem' = update_filesystem(filesystem, 1, fs_after)
    /\ last' = call
    /\ UNCHANGED chat_session

FsInit ==
    /\ chat_session = <<>>
    /\ filesystem = update_filesystem(<<>>, 1, DefaultFileSystem)
    /\ last = FsCall("default", None, None, None, TRUE, "", None, DefaultFileSystem)

FsMkdir(path) ==
    LET fs == filesystem[1]
        r  == mkdir(fs, path)
    IN  FsApply(r.fs, FsCall("mkdir", Some(path), None, None, r.ok, r.err, None, fs))

FsCreateFileFromNode(path, file_node) ==
    LET fs == filesystem[1]
        r  == create_file_from_node(fs, path, file_node)
    IN  FsApply(r.fs, FsCall("create_file_from_node", Some(path), None,
                             Some(file_node), r.ok, r.err, r.path, fs))

FsMv(from, to) ==
    LET fs == filesystem[1]
        r  == mv(fs, from, to)
    IN  FsApply(r.fs, FsCall("mv", Some(from), Some(to), None, r.ok, r.err, None, fs))

FsGetNode(path) ==
    LET fs == filesystem[1]
        r  == get_node(fs, path)
    IN  FsApply(fs, FsCall("get_node", Some(path), None, None, r.ok, r.err, r.val, fs))

FsLs(path) ==
    LET fs == filesystem[1]
        r  == ls(fs, path)
    IN  FsApply(fs, FsCall("ls", Some(path), None, None, r.ok, r.err, r.val, fs))

\* mkdir, create_file_from_node and mv are called with paths made from the
\* current path of a session, which is absolute; get_node is also called
\* with the path of a callback token, which may be relative
FsAbsolutePaths == {path \in FsPaths : is_absolute(path)}

FsNext ==
    \/ \E path \in FsAbsolutePaths : FsMkdir(path)
    \/ \E path \in FsAbsolutePaths, file_node \in FsFileNodes :
          FsCreateFileFromNode(path, file_node)
    \/ \E from \in FsAbsolutePaths, to \in FsAbsolutePaths : FsMv(from, to)
    \/ \E path \in FsPaths : FsGetNode(path)
    \/ \E path \in FsPaths : FsLs(path)

FsSpec == FsInit /\ [][FsNext]_vars

----------------------------------------------------------------------------
(* Properties of ChatSession::reset and of the rename reply *)

\* C11: reset() of any session yields the root as current path and no
\* pending action.
C11_ResetYieldsDefault ==
    \A chat_id \in DOMAIN chat_session :
        reset(chat_session[chat_id]) = [current_path |-> root_path, action |-> None]

\* C11 witness: a stored session away from the root whose action carries a
\* captured file node
C11_Witness ==
    /\ 1 \in DOMAIN chat_session
    /\ chat_session[1].current_path # root_path
    /\ is_some(chat_session[1].action)
    /\ is_some(unwrap(chat_session[1].action).node)

\* the paths of the nodes of a tree, as sequences of keys from its root
RECURSIVE NodePathsOf(_)
NodePathsOf(node) ==
    IF is_file(node) THEN {<<>>}
    ELSE {<<>>} \cup UNION {{<<k>> \o p : p \in NodePathsOf(node.nodes[k])} :
                             k \in DOMAIN node.nodes}

\* the absolute paths of the nodes of a file system
NodePaths(fs) == {[abs |-> TRUE, comps |-> c] : c \in NodePathsOf(fs.root)}

\* get_node with the children of a directory left out: what the node at a
\* path is, whatever is below it
NodeAt(fs, path) ==
    LET r == get_node(fs, path)
    IN  IF r.ok /\ is_directory(unwrap(r.val)) THEN Ok(new_directory) ELSE r

\* C12: a text reply in RenameFile(Some(FileName)) moves the node at the
\* old path to the sibling path with the new name: afterwards the old path
\* is not found, the sibling path holds the node that was at the old path,
\* and every other node is as it was.
C12_RenameMovesToSibling ==
    [][\A chat_id \in ChatIds :
          ( /\ last'.chat_id = chat_id
            /\ IsTextReply(last')
            /\ LoadedSession(chat_id).action = Some(RenameFile(Some(FileName)))
            /\ last'.res \in {"Ok", "Err"} )
          => LET old_path == LoadedSession(chat_id).current_path
                 new_name == unwrap(unwrap(last'.msg).text)
                 fs_old   == LoadedFileSystem(chat_id)
                 fs_new   == filesystem'[chat_id]
             IN  /\ is_some(parent(old_path))
                 /\ get_node(fs_new, old_path) = Err("Path not found")
                 /\ get_node(fs_new, join(unwrap(parent(old_path)), new_name))
                        = get_node(fs_old, old_path)
                 /\ \A q \in (NodePaths(fs_old) \cup NodePaths(fs_new))
                               \ {old_path, join(unwrap(parent(old_path)), new_name)} :
                        NodeAt(fs_new, q) = NodeAt(fs_old, q)]_vars

----------------------------------------------------------------------------
(* Properties of the FileSystem calls *)

\* the proper ancestors of a path, the root first
Ancestors(path) ==
    {[abs |-> path.abs, comps |-> SubSeq(path.comps, 1, i)] :
        i \in 0..(Len(path.comps) - 1)}

\* p is q or an ancestor of q
IsPrefix(p, q) ==
    /\ p.abs = q.abs
    /\ Len(p.comps) <= Len(q.comps)
    /\ SubSeq(q.comps, 1, Len(p.comps)) = p.comps

\* the walk of get_node consumes the whole path: there is a node at it
Resolves(fs, path) ==
    /\ get_node(fs, path).ok
    /\ \A q \in Ancestors(path) : IsDirectoryAt(fs, q)

\* an existing node on the way from the root to the parent of the path is a
\* file
FileOnWay(fs, path) == \E q \in Ancestors(path) : IsFileAt(fs, q)

\* C13: mkdir(p) creates every missing ancestor: it succeeds when p has a
\* file name and no file is on the way, and after a successful mkdir(p) p and
\* every proper ancestor of p resolve to directories while the nodes outside
\* the path from the root to p are as they were.
C13_MkdirCreatesAncestors ==
    last.op = "mkdir"
    => LET p      == unwrap(last.path)
           fs_old == last.before
           fs_new == filesystem[1]
       IN  /\ (is_some(file_name(p)) /\ ~FileOnWay(fs_old, p)) => last.ok
           /\ last.ok
              => /\ Resolves(fs_new, p)
                 /\ IsDirectoryAt(fs_new, p)
                 /\ \A q \in Ancestors(p) : Resolves(fs_new, q) /\ IsDirectoryAt(fs_new, q)
                 /\ \A q \in NodePaths(fs_old) \cup NodePaths(fs_new) :
                       (~IsPrefix(p, q) /\ ~IsPrefix(q, p))
                       => NodeAt(fs_new, q) = NodeAt(fs_old, q)

\* C13 witness: mkdir("/a/b/a") succeeded on a file system without /a
C13_Witness ==
    /\ last.op = "mkdir"
    /\ last.ok
    /\ last.path = Some(P(<<SEP, "a", SEP, "b", SEP, "a">>))
    /\ ~get_node(last.before, P(<<SEP, "a">>)).ok
    /\ IsDirectoryAt(filesystem[1], P(<<SEP, "a", SEP, "b">>))

\* C14: after a successful mkdir(p) the node at p is a directory without
\* children, whatever was at p before, and what was below p is not found.
C14_MkdirOverwrites ==
    (last.op = "mkdir" /\ last.ok)
    => LET p == unwrap(last.path)
       IN  /\ get_node(filesystem[1], p) = Ok(new_directory)
           /\ \A q \in NodePaths(last.before) :
                 (IsPrefix(p, q) /\ q # p)
                 => get_node(filesystem[1], q) = Err("Path not found")

\* C14 witness: mkdir succeeded at a path that held a directory with a child
C14_Witness ==
    /\ last.op = "mkdir"
    /\ last.ok
    /\ Resolves(last.before, unwrap(last.path))
    /\ IsDirectoryAt(last.before, unwrap(last.path))
    /\ unwrap(get_node(last.before, unwrap(last.path)).val).nodes # <<>>

\* C15: mkdir and create_file_from_node fail with "Parent is not a directory"
\* whenever an existing node on the way from the root to the parent of the
\* target is a file, and then the file system is unchanged.
C15_FileOnWayIsNotDirectory ==
    ( /\ last.op \in {"mkdir", "create_file_from_node"}
      /\ FileOnWay(last.before, unwrap(last.path)) )
    => /\ ~last.ok
       /\ last.err = "Parent is not a directory"
       /\ filesystem[1] = last.before

\* C15 witness: create_file_from_node("/a/b/a", node) failed where /a is a
\* file
C15_Witness ==
    /\ last.op = "create_file_from_node"
    /\ last.path = Some(P(<<SEP, "a", SEP, "b", SEP, "a">>))
    /\ Resolves(last.before, P(<<SEP, "a">>))
    /\ IsFileAt(last.before, P(<<SEP, "a">>))
    /\ last.err = "Parent is not a directory"

\* what the claims on mv say of a call that moved the node: `from` is not
\* found, `to` holds the node that was at `from` with all below it, and the
\* other children of the parent of `to`, unless `from` is or was below
\* them, are as they were
Moved(fs_old, fs_new, from, to) ==
    /\ get_node(fs_new, from) = Err("Path not found")
    /\ get_node(fs_new, to) = get_node(fs_old, from)
    /\ \A q \in NodePaths(fs_old) \ {to} :
          (is_some(parent(to)) /\ parent(q) = parent(to) /\ ~IsPrefix(q, from))
          => get_node(fs_new, q) = get_node(fs_old, q)

\* C16 as stated: mv(from, to) with a node at `from` (a node other than the
\* root) succeeds, also when the parent directories of `to` are absent, and
\* moves the node.
C16_MvMovesNode ==
    ( /\ last.op = "mv"
      /\ Resolves(last.before, unwrap(last.path))
      /\ is_some(file_name(unwrap(last.path))) )
    => /\ last.ok
       /\ Moved(last.before, filesystem[1], unwrap(last.path), unwrap(last.to))

\* C16 amended: mv(from, to) with a node at `from` that is not the root, `to`
\* a path with a file name that is neither `from`, nor below `from`, nor an
\* ancestor of `from`, and no file on the way to the parent of `to`,
\* succeeds, also when the parent directories of `to` are absent, and moves
\* the node; the nodes that are not on the walks to `from` and `to` are as
\* they were.
C16_MvMovesNodeElsewhere ==
    LET from == unwrap(last.path)
        to   == unwrap(last.to)
    IN  ( /\ last.op = "mv"
          /\ Resolves(last.before, from)
          /\ is_some(file_name(from))
          /\ is_some(file_name(to))
          /\ ~IsPrefix(from, to)
          /\ ~IsPrefix(to, from)
          /\ ~FileOnWay(last.before, to) )
        => /\ last.ok
           /\ Moved(last.before, filesystem[1], from, to)
           /\ \A q \in NodePaths(last.before) \cup NodePaths(filesystem[1]) :
                 ( /\ ~IsPrefix(from, q) /\ ~IsPrefix(q, from)
                   /\ ~IsPrefix(to, q) /\ ~IsPrefix(q, to) )
                 => NodeAt(filesystem[1], q) = NodeAt(last.before, q)

\* C16 witness: a directory with a child was moved to a path whose parent
\* did not exist
C16_Witness ==
    /\ last.op = "mv"
    /\ last.ok
    /\ ~get_node(last.before, unwrap(parent(unwrap(last.to)))).ok
    /\ IsDirectoryAt(filesystem[1], unwrap(last.to))
    /\ unwrap(get_node(filesystem[1], unwrap(last.to)).val).nodes # <<>>
    /\ Moved(last.before, filesystem[1], unwrap(last.path), unwrap(last.to))

\* C17: mv(from, to) returns "Node not found" when there is no node at
\* `from`, and nothing is inserted at `to`.
C17_MvFromAbsentIsNotFound ==
    (last.op = "mv" /\ ~Resolves(last.before, unwrap(last.path)))
    => /\ ~last.ok
       /\ last.err = "Node not found"
       /\ get_node(filesystem[1], unwrap(last.to))
              = get_node(last.before, unwrap(last.to))

\* the paths given to get_node and ls, and their ancestors
FsWalks == FsPaths \cup UNION {Ancestors(path) : path \in FsPaths}

\* C18: get_node rejects a path that is not absolute with "Path must be
\* absolute"; on an absolute path it returns the root, a directory, for the
\* root path, "Path not found" when a component is missing in the directory
\* the walk has reached, and otherwise the node the walk ends at.
C18_GetNodeContract ==
    \A path \in FsWalks :
        LET fs == filesystem[1]
            r  == get_node(fs, path)
        IN  IF ~is_absolute(path) THEN r = Err("Path must be absolute")
            ELSE IF path.comps = <<>> THEN r = Ok(fs.root) /\ is_directory(fs.root)
            ELSE LET up  == get_node(fs, unwrap(parent(path)))
                     key == Last(path.comps)
                 IN  /\ ~up.ok => r = Err("Path not found")
                     /\ (up.ok /\ is_file(unwrap(up.val))) => r = up
                     /\ (up.ok /\ is_directory(unwrap(up.val)))
                        => IF key \in DOMAIN unwrap(up.val).nodes
                           THEN r = Ok(unwrap(up.val).nodes[key])
                           ELSE r = Err("Path not found")

\* C18 witness: get_node("/a/b/a") was "Path not found" because the directory
\* /a has no child b, and get_node of the relative path "a/b" was rejected
C18_Witness ==
    /\ last.op = "get_node"
    /\ last.path = Some(P(<<SEP, "a", SEP, "b", SEP, "a">>))
    /\ last.err = "Path not found"
    /\ Resolves(filesystem[1], P(<<SEP, "a">>))
    /\ IsDirectoryAt(filesystem[1], P(<<SEP, "a">>))
    /\ get_node(filesystem[1], P(<<"a", SEP, "b">>)) = Err("Path must be absolute")

\* C19: when the walk of get_node reaches a file before the path is
\* exhausted, that file is returned and the rest of the path is ignored.
C19_FileEndsWalk ==
    \A path \in FsWalks :
        \A q \in Ancestors(path) :
            (Resolves(filesystem[1], q) /\ IsFileAt(filesystem[1], q))
            => get_node(filesystem[1], path) = get_node(filesystem[1], q)

\* C19 witness: get_node("/a/b/a") returned the file at /a
C19_Witness ==
    /\ last.op = "get_node"
    /\ last.path = Some(P(<<SEP, "a", SEP, "b", SEP, "a">>))
    /\ last.ok
    /\ is_file(unwrap(last.val))
    /\ Resolves(filesystem[1], P(<<SEP, "a">>))
    /\ last.val = get_node(filesystem[1], P(<<SEP, "a">>)).val

\* C20: ls of a path is the names of the children of the directory there,
\* each once, in the order of the names; it fails with "Not a directory" when
\* get_node gives a file, "Path not found" when the path is missing and
\* "Path must be absolute" for a relative path.
C20_LsContract ==
    \A path \in FsWalks :
        LET fs == filesystem[1]
            n  == get_node(fs, path)
            r  == ls(fs, path)
        IN  IF ~is_absolute(path) THEN r = Err("Path must be absolute")
            ELSE IF ~n.ok THEN r = Err("Path not found")
            ELSE IF is_file(unwrap(n.val)) THEN r = Err("Not a directory")
            ELSE /\ r.ok
                 /\ LET names == unwrap(r.val)
                    IN  /\ {names[i] : i \in 1..Len(names)}
                               = DOMAIN unwrap(n.val).nodes
                        /\ Len(names) = Cardinality(DOMAIN unwrap(n.val).nodes)
                        /\ \A i \in 1..(Len(names) - 1) :
                               key_lt(names[i], names[i + 1])

\* C20 witness: /a was inserted after /b, and ls("/") has a before b, after
\* the names of the default directories
C20_Witness ==
    /\ last.op = "mkdir"
    /\ last.ok
    /\ last.path = Some(P(<<SEP, "a">>))
    /\ Resolves(last.before, P(<<SEP, "b">>))
    /\ ~Resolves(last.before, P(<<SEP, "a">>))
    /\ ls(filesystem[1], root_path)
           = Ok(<<<<"Documents">>, <<"Images">>, <<"Trash">>, <<"Videos">>,
                  <<"a">>, <<"b">>>>)

----------------------------------------------------------------------------
(* Properties of FileSystem::create_file_from_node, checked under the
   specification CreateSpec: files of every kind of content type are created
   at paths with and without an extension, in directories made by mkdir. *)

\* a file without content type, one whose type maps to an extension, one of
\* a platform pseudo type and one whose type maps to no extension
CreateFileNodes ==
    {new_file(1, 1, None), new_file(2, 3, Some(<<"image", SEP, "png">>)),
     new_file(3, 1, Some(TgMime("text"))), new_file(4, 1, Some(<<"a">>))}

\* absolute paths, two of them with a file name that has an extension
CreatePaths ==
    FsAbsolutePaths \cup {P(<<SEP, "b", DOT, "txt">>),
                          P(<<SEP, "a", SEP, "b", DOT, "txt">>)}

CreateNext ==
    \/ \E path \in FsAbsolutePaths : FsMkdir(path)
    \/ \E path \in CreatePaths, file_node \in CreateFileNodes :
          FsCreateFileFromNode(path, file_node)

CreateSpec == FsInit /\ [][CreateNext]_vars

\* the path whose file name is the file name of `path` followed by a dot and
\* `ext`
WithSuffix(path, ext) ==
    [abs |-> path.abs,
     comps |-> Append(Front(path.comps), Last(path.comps) \o <<DOT>> \o ext)]

\* the extension the content type of a file node stands for, if any
InferredExtension(file_node) ==
    IF is_none(file_mime_type(file_node)) THEN None
    ELSE LET mime == unwrap(file_mime_type(file_node))
         IN  IF Head(mime) = TG_FILE_MIME_TYPE_PREFIX THEN Some(mime)
             ELSE mime2ext(mime)

\* C21: a successful create_file_from_node(path, node) returns the final
\* path and the node is the File retrieved at it; the final path is `path`
\* itself when its file name has an extension, else `path` with the pseudo
\* content type of the node as extension, else `path` with the extension
\* the content type maps to, and `path` itself when the content type maps to
\* none or is absent.
C21_CreateFileFinalPath ==
    (last.op = "create_file_from_node" /\ last.ok)
    => LET path      == unwrap(last.path)
           file_node == unwrap(last.node)
           inferred  == InferredExtension(file_node)
       IN  /\ is_some(last.val)
           /\ get_node(filesystem[1], unwrap(last.val)) = Ok(file_node)
           /\ is_file(file_node)
           /\ unwrap(last.val) =
                  IF is_some(extension(path)) \/ is_none(inferred) THEN path
                  ELSE WithSuffix(path, unwrap(inferred))

\* C21 witnesses: a file of a pseudo type created under its type as
\* extension, and a file created at a path that had an extension
C21_Witness ==
    /\ last.op = "create_file_from_node" /\ last.ok
    /\ unwrap(last.node) = new_file(3, 1, Some(TgMime("text")))
    /\ unwrap(last.val) = P(<<SEP, "a", SEP, "b", DOT, "tg+", "text">>)

----------------------------------------------------------------------------
(* Properties of the callback tokens *)

\* the triggers that carry no payload
BareTriggers ==
    {CurrentDir, ParentDir, Back, DeleteDir, Explorer, DeleteFile, MkDir(None),
     SaveFile(None, None), RenameFile(None), MoveFile(None)}

\* the absolute paths a button can name: those of the callback data and
\* those of the nodes of a file system
ButtonPaths(fs) ==
    {path \in {PathBuf_from(t) : t \in PathTokens} : is_absolute(path)}
    \cup NodePaths(fs)

\* C22: decoding the token of a trigger that carries no payload, or of
\* FileOrDir(p) with p absolute, yields the trigger itself.
C22_TokenRoundTrip ==
    \A chat_id \in ChatIds :
        \A t \in BareTriggers
                  \cup {FileOrDir(path) :
                           path \in ButtonPaths(LoadedFileSystem(chat_id))} :
            ChatSessionAction_from(ChatSessionAction_to_string(t)) = t

\* C22 witness: the button of a stored file with an extension was tapped and
\* its data decoded to the path of the file
C22_Witness ==
    /\ IsButtonTap(last)
    /\ TapAction(last).tag = "FileOrDir"
    /\ unwrap(TapAction(last).path) \in NodePaths(LoadedFileSystem(last.chat_id))
    /\ is_some(extension(unwrap(TapAction(last).path)))
    /\ IsFileAt(LoadedFileSystem(last.chat_id), unwrap(TapAction(last).path))
    /\ ChatSessionAction_to_string(TapAction(last)) = unwrap(unwrap(last.query).data)

\* the actions that carry a payload: an awaited reply, a captured file node
\* or a move source
PayloadActions ==
    {MkDir(w) : w \in {None, Some(DirectoryName)}}
    \cup {SaveFile(n, w) : n \in {None} \cup {Some(f) : f \in FsFileNodes},
                           w \in {None, Some(FileName)}}
    \cup {RenameFile(w) : w \in {None, Some(FileName)}}
    \cup {MoveFile(from) : from \in {None} \cup {Some(path) : path \in FsPaths}}

\* the action of the same variant that carries no payload
WithoutPayload(a) == Action(a.tag, None, None, None)

\* the payload of the pending action of a session
PendingPayload(cs) ==
    IF is_none(cs.action) THEN [tag |-> "None", wait |-> None, node |-> None, from |-> None]
    ELSE LET a == unwrap(cs.action)
         IN  [tag |-> a.tag, wait |-> a.wait, node |-> a.node,
              from |-> IF a.tag = "MoveFile" THEN a.path ELSE None]

\* C23: the token of an action that carries a payload is the same for every
\* payload and decodes to the action without payload; after a button tap a
\* captured node is the one the pending action had, an awaited reply is the
\* one the pending action stands for, and a move source is the one the
\* pending action had or the path of the tapped button at which the
\* namespace has a file.
C23_NoPayloadInToken ==
    [][/\ \A a \in PayloadActions :
             /\ ChatSessionAction_to_string(a)
                   = ChatSessionAction_to_string(WithoutPayload(a))
             /\ ChatSessionAction_from(ChatSessionAction_to_string(a))
                   = WithoutPayload(a)
       /\ \A chat_id \in ChatIds :
             (last'.chat_id = chat_id /\ IsButtonTap(last'))
             => LET old == PendingPayload(LoadedSession(chat_id))
                    new == PendingPayload(chat_session'[chat_id])
                    tap == TapAction(last')
                IN  /\ chat_id \in DOMAIN chat_session'
                    /\ new.tag \in {"None", old.tag}
                    /\ is_some(new.node) => new.node = old.node
                    /\ is_some(new.wait)
                          => new.wait = Some(IF old.tag = "MkDir" THEN DirectoryName
                                             ELSE FileName)
                    /\ is_some(new.from)
                          => \/ new.from = old.from
                             \/ /\ tap.tag = "FileOrDir"
                                /\ new.from = tap.path
                                /\ IsFileAt(LoadedFileSystem(chat_id),
                                            unwrap(tap.path))]_vars

\* C23 witness: "here" was tapped while a captured file awaited its
\* directory, and the session holds the captured node and awaits a file name
C23_Witness ==
    /\ last.branch = "here_save_file"
    /\ last.res = "Ok"
    /\ PendingPayload(chat_session[last.chat_id]).node
          = Some(new_file(3, 3, Some(<<"image", SEP, "png">>)))
    /\ PendingPayload(chat_session[last.chat_id]).wait = Some(FileName)

----------------------------------------------------------------------------
(* Properties of the button taps *)

\* the pending action of the session a turn loads
LoadedAction(chat_id) == unwrap(LoadedSession(chat_id).action)

\* the turn of `chat_id` was a tap of the button of `action` while an action
\* was pending
Tapped(l, chat_id, action) ==
    /\ l.chat_id = chat_id
    /\ IsButtonTap(l)
    /\ is_some(unwrap(l.query).message)
    /\ TapAction(l) = action
    /\ ~Idle(LoadedSession(chat_id))

\* the session awaits the directory of a new directory or of a captured file
AwaitsDirectory(a) ==
    \/ a = MkDir(None)
    \/ a.tag = "SaveFile" /\ is_some(a.node) /\ is_none(a.wait)

ParentOrRoot(path) == IF is_some(parent(path)) THEN unwrap(parent(path)) ELSE root_path

\* the states in which ".." is handled
HasParentArm(a) ==
    \/ a.tag \in {"Explorer", "MkDir", "RenameFile", "MoveFile"}
    \/ a.tag = "SaveFile" /\ is_some(a.node) /\ is_none(a.wait)

TappedPath(l, chat_id) ==
    /\ Tapped(l, chat_id, TapAction(l))
    /\ TapAction(l).tag = "FileOrDir"

\* the path of the tapped button
TapPath(l) == unwrap(TapAction(l).path)

\* C26 as stated: the button of p tapped in Explorer: when p resolves to a
\* Directory the current path becomes p and the action stays Explorer; when
\* p resolves to a File the response refers to the stored message id of the
\* file and the session and the namespace are as they were.
C26_ExplorerSelectPath ==
    [][\A chat_id \in ChatIds :
          (TappedPath(last', chat_id) /\ LoadedAction(chat_id) = Explorer)
          => LET path == TapPath(last')
                 fs   == LoadedFileSystem(chat_id)
             IN  /\ IsDirectoryAt(fs, path)
                      => /\ chat_session'[chat_id].current_path = path
                         /\ chat_session'[chat_id].action = Some(Explorer)
                 /\ IsFileAt(fs, path)
                      => /\ last'.res = "Ok"
                         /\ last'.reply_to
                               = file_message_id(unwrap(get_node(fs, path).val))
                         /\ chat_session'[chat_id] = LoadedSession(chat_id)
                         /\ filesystem'[chat_id] = fs]_vars

\* C26 amended: as C26 for a Directory, and for a File when p has a final
\* segment name; when p resolves to a File and has no final segment name the
\* turn is an error that clears the pending action and leaves the current
\* path and the namespace as they were.
C26_ExplorerSelectNamedPath ==
    [][\A chat_id \in ChatIds :
          (TappedPath(last', chat_id) /\ LoadedAction(chat_id) = Explorer)
          => LET path == TapPath(last')
                 fs   == LoadedFileSystem(chat_id)
             IN  /\ IsDirectoryAt(fs, path)
                      => /\ chat_session'[chat_id].current_path = path
                         /\ chat_session'[chat_id].action = Some(Explorer)
                 /\ (IsFileAt(fs, path) /\ is_some(file_name(path)))
                      => /\ last'.res = "Ok"
                         /\ last'.reply_to
                               = file_message_id(unwrap(get_node(fs, path).val))
                         /\ chat_session'[chat_id] = LoadedSession(chat_id)
                         /\ filesystem'[chat_id] = fs
                 /\ (IsFileAt(fs, path) /\ is_none(file_name(path)))
                      => /\ last'.res = "Err"
                         /\ chat_session'[chat_id]
                               = clear_action(LoadedSession(chat_id))
                         /\ filesystem'[chat_id] = fs]_vars

\* C26 witness: the button of a stored file was tapped in Explorer and the
\* response refers to the message the file came with
C26_Witness ==
    /\ last.branch = "path_explorer_file"
    /\ last.res = "Ok"
    /\ last.reply_to = Some(3)
    /\ IsFileAt(filesystem[last.chat_id], TapPath(last))
    /\ chat_session[last.chat_id].action = Some(Explorer)

\* C27 as stated: the button of p tapped in RenameFile(None): when p is a
\* Directory the current path becomes p and the state stays
\* RenameFile(None); when p is a File the current path becomes p and the
\* state becomes RenameFile(Some(FileName)); the namespace is as it was.
C27_RenameSelectPath ==
    [][\A chat_id \in ChatIds :
          (TappedPath(last', chat_id) /\ LoadedAction(chat_id) = RenameFile(None))
          => LET path == TapPath(last')
                 fs   == LoadedFileSystem(chat_id)
             IN  /\ IsDirectoryAt(fs, path)
                      => /\ chat_session'[chat_id]
                               = [current_path |-> path,
                                  action |-> Some(RenameFile(None))]
                         /\ filesystem'[chat_id] = fs
                 /\ IsFileAt(fs, path)
                      => /\ chat_session'[chat_id]
                               = [current_path |-> path,
                                  action |-> Some(RenameFile(Some(FileName)))]
                         /\ filesystem'[chat_id] = fs]_vars

\* C27 amended: as C27 for a Directory, and for a File when p has a final
\* segment name; when p resolves to a File and has no final segment name the
\* turn is an error that clears the pending action and leaves the current
\* path and the namespace as they were.
C27_RenameSelectNamedPath ==
    [][\A chat_id \in ChatIds :
          (TappedPath(last', chat_id) /\ LoadedAction(chat_id) = RenameFile(None))
          => LET path == TapPath(last')
                 fs   == LoadedFileSystem(chat_id)
             IN  /\ IsDirectoryAt(fs, path)
                      => /\ chat_session'[chat_id]
                               = [current_path |-> path,
                                  action |-> Some(RenameFile(None))]
                         /\ filesystem'[chat_id] = fs
                 /\ (IsFileAt(fs, path) /\ is_some(file_name(path)))
                      => /\ last'.res = "Ok"
                         /\ chat_session'[chat_id]
                               = [current_path |-> path,
                                  action |-> Some(RenameFile(Some(FileName)))]
                         /\ filesystem'[chat_id] = fs
                 /\ (IsFileAt(fs, path) /\ is_none(file_name(path)))
                      => /\ last'.res = "Err"
                         /\ chat_session'[chat_id]
                               = clear_action(LoadedSession(chat_id))
                         /\ filesystem'[chat_id] = fs]_vars

\* C27 witness: the button of a stored file was tapped in RenameFile(None);
\* the session is at the path of the file and awaits its new name
C27_Witness ==
    /\ last.branch = "path_rename_file_file"
    /\ last.res = "Ok"
    /\ IsFileAt(filesystem[last.chat_id], P(<<SEP, "a", DOT, "png">>))
    /\ chat_session[last.chat_id]
          = [current_path |-> P(<<SEP, "a", DOT, "png">>),
             action |-> Some(RenameFile(Some(FileName)))]

\* C28: the button of p tapped in MoveFile(from): when p is a Directory the
\* current path becomes p and the state stays MoveFile(from); when p is a
\* File the state becomes MoveFile(Some(p)) and the current path the root;
\* the namespace is as it was.
C28_MoveSelectPath ==
    [][\A chat_id \in ChatIds :
          (TappedPath(last', chat_id) /\ LoadedAction(chat_id).tag = "MoveFile")
          => LET path == TapPath(last')
                 fs   == LoadedFileSystem(chat_id)
             IN  /\ IsDirectoryAt(fs, path)
                      => /\ chat_session'[chat_id]
                               = [current_path |-> path,
                                  action |-> LoadedSession(chat_id).action]
                         /\ filesystem'[chat_id] = fs
                 /\ IsFileAt(fs, path)
                      => /\ chat_session'[chat_id]
                               = [current_path |-> root_path,
                                  action |-> Some(MoveFile(Some(path)))]
                         /\ filesystem'[chat_id] = fs]_vars

\* C28 witness: the button of a stored file was tapped in MoveFile(_); the
\* session is at the root and holds the path of the file as move source
C28_Witness ==
    /\ last.branch = "path_move_file_file"
    /\ last.res = "Ok"
    /\ IsFileAt(filesystem[last.chat_id], P(<<SEP, "a", DOT, "png">>))
    /\ chat_session[last.chat_id]
          = [current_path |-> root_path,
             action |-> Some(MoveFile(Some(P(<<SEP, "a", DOT, "png">>))))]

----------------------------------------------------------------------------
(* Properties of the messages received while no action is pending *)

\* the File node an inbound message stands for: its message id, the length
\* of a plain text or the size of an attachment (0 when it has none), and
\* the pseudo text type or the content type of the attachment
InboundFile(msg) ==
    IF is_some(msg.text)
    THEN new_file(msg.message_id, Len(unwrap(msg.text)), Some(TgMime("text")))
    ELSE LET att == unwrap(msg.attachment)
         IN  new_file(msg.message_id,
                      IF is_some(att.file_size) /\ att.kind # "contact"
                      THEN unwrap(att.file_size) ELSE 0,
                      IF att.kind = "contact" THEN Some(TgMime("contact"))
                      ELSE att.mime_type)

\* C29: an attachment or a plain text that is no command, received while no
\* action is pending, leaves the session at the root in
\* SaveFile(Some(node), None), node being a File with the id of the inbound
\* message, the size and the content type of the attachment (the pseudo
\* text type for a plain text); the namespace is as it was.
C29_IdleMessageStartsSaveFile ==
    [][\A chat_id \in ChatIds :
          ( /\ last'.chat_id = chat_id
            /\ last'.handler = "message"
            /\ ~IsCommand(last')
            /\ is_some(unwrap(last'.msg).text) \/ is_some(unwrap(last'.msg).attachment)
            /\ Idle(LoadedSession(chat_id)) )
          => /\ last'.res = "Ok"
             /\ chat_session'[chat_id]
                   = [current_path |-> root_path,
                      action |-> Some(SaveFile(Some(InboundFile(unwrap(last'.msg))),
                                               None))]
             /\ filesystem'[chat_id] = LoadedFileSystem(chat_id)]_vars

\* C29 witness: a plain text was received while no action was pending and
\* the session holds it as a File of the pseudo text type
C29_Witness ==
    /\ last.branch = "process_file_message"
    /\ last.res = "Ok"
    /\ is_some(unwrap(last.msg).text)
    /\ chat_session[last.chat_id]
          = [current_path |-> root_path,
             action |-> Some(SaveFile(Some(new_file(2, 2, Some(TgMime("text")))),
                                      None))]

----------------------------------------------------------------------------
(* Two conversations: the specification TwoChatsSpec runs the turns of two
   chat ids over a few messages and button taps. *)

TwoChatIds == {1, 2}

TwoChatsMessages ==
    {Message(1, Some(<<SEP, "mkdir">>), TRUE, None),
     Message(2, Some(<<"a">>), FALSE, None)}

TwoChatsCallbackQueries ==
    {CallbackQuery(Some(d), Some(5)) :
        d \in {ChatSessionAction_to_string(CurrentDir), <<SEP, "Documents">>}}

TwoChatsNext ==
    \E chat_id \in TwoChatIds :
        \/ \E msg \in TwoChatsMessages : HandleUpdateContentMessage(chat_id, msg)
        \/ \E query \in TwoChatsCallbackQueries :
              HandleUpdateContentCallbackQuery(chat_id, query)

TwoChatsSpec == Init /\ [][TwoChatsNext]_vars

\* what a repository holds under an id: nothing, or a value
Stored(repository, id) ==
    IF id \in DOMAIN repository THEN Some(repository[id]) ELSE None

\* the outcome of a turn computed from what the repositories hold under the
\* id of the turn only
OwnOutcome(l, sessions, filesystems) ==
    LET cs == IF is_some(Stored(sessions, l.chat_id))
              THEN sessions[l.chat_id] ELSE DefaultChatSession
        fs == IF is_some(Stored(filesystems, l.chat_id))
              THEN filesystems[l.chat_id] ELSE DefaultFileSystem
    IN  with_clear_action_on_error(
            IF l.handler = "message" THEN message_closure(cs, fs, unwrap(l.msg))
            ELSE callback_query_closure(cs, fs, unwrap(l.query)))

\* C30: a turn of one chat id leaves what is stored under every other id as
\* it was, and what it stores under its own id and what it returns are
\* those of the handler run on the session and the file system stored
\* under its own id.
C30_ChatsAreIsolated ==
    [][\A chat_id \in TwoChatIds :
          last'.chat_id = chat_id
          => /\ \A other \in TwoChatIds \ {chat_id} :
                   /\ Stored(chat_session', other) = Stored(chat_session, other)
                   /\ Stored(filesystem', other) = Stored(filesystem, other)
             /\ LET out == OwnOutcome(last', chat_session, filesystem)
                IN  /\ last'.res = out.res
                    /\ out.res # "Panic"
                          => /\ Stored(chat_session', chat_id) = Some(out.cs)
                             /\ Stored(filesystem', chat_id) = Some(out.fs)]_vars

\* C30 witness: chat 1 awaits the name of a new directory, chat 2 has made a
\* directory and has just had a turn, and the file systems differ
C30_Witness ==
    /\ last.chat_id = 2
    /\ Stored(chat_session, 1)
          = Some([current_path |-> P(<<SEP, "Documents">>),
                  action |-> Some(MkDir(Some(DirectoryName)))])
    /\ Stored(chat_session, 2) # Stored(chat_session, 1)
    /\ is_some(Stored(filesystem, 2))
    /\ IsDirectoryAt(filesystem[2], P(<<SEP, "a">>))
    /\ Stored(filesystem, 1) = Some(DefaultFileSystem)

----------------------------------------------------------------------------
(* Overlapping turns of one conversation. A handler loads the session and the
   file system (get_or_create_*, which store the defaults when nothing is
   stored), runs its closure on the loaded copies and saves both at its end;
   nothing in it locks or compares versions. The specification OverlapSpec
   lets the host run two handlers whose loads and saves interleave; `last`
   holds the turns in flight: what each loaded turn will save, and whether
   another turn has saved since it loaded. *)

Workers == {1, 2}

NoTurn == [loaded |-> FALSE, update |-> None, out |-> None, stale |-> FALSE]

OverlapUpdates ==
    {[chat_id |-> 1, handler |-> "message", msg |-> Some(msg), query |-> None] :
        msg \in TwoChatsMessages}
    \cup {[chat_id |-> 1, handler |-> "callback_query", msg |-> None,
           query |-> Some(CallbackQuery(Some(ChatSessionAction_to_string(CurrentDir)),
                                        Some(5)))]}

OverlapInit ==
    /\ chat_session = <<>>
    /\ filesystem = <<>>
    /\ last = [op |-> "none", worker |-> 0, turns |-> [w \in Workers |-> NoTurn],
               lost |-> FALSE]

\* the head of a handler: both values are loaded (the defaults are stored
\* when nothing is) and the closure runs on the loaded copies
OverlapLoad(w, update) ==
    LET chat_id == update.chat_id
        out     == IF update.handler = "message"
                   THEN handle_update_content_message(chat_id, unwrap(update.msg))
                   ELSE handle_update_content_callback_query(chat_id,
                                                             unwrap(update.query))
    IN  /\ ~last.turns[w].loaded
        /\ NodeCount(out.fs.root) - 1 <= MaxNodes
        /\ chat_session' =
              update_chat_session(chat_session, chat_id,
                                  get_or_create_chat_session(chat_id))
        /\ filesystem' =
              update_filesystem(filesystem, chat_id,
                                get_or_create_filesystem(chat_id))
        /\ last' = [op |-> "load", worker |-> w,
                    turns |-> [last.turns EXCEPT ![w] =
                                  [loaded |-> TRUE, update |-> Some(update),
                                   out |-> Some(out), stale |-> FALSE]],
                    lost |-> FALSE]

\* the end of a handler: save_chat_session_and_filesystem of its own copies
OverlapPersist(w) ==
    LET turn    == last.turns[w]
        out     == unwrap(turn.out)
        chat_id == unwrap(turn.update).chat_id
        saved   == save_chat_session_and_filesystem(chat_session, filesystem,
                                                     chat_id, out.cs, out.fs)
    IN  /\ turn.loaded
        /\ IF out.res = "Panic"
           THEN UNCHANGED <<chat_session, filesystem>>
           ELSE /\ chat_session' = saved.chat_session
                /\ filesystem' = saved.filesystem
        /\ last' = [op |-> "persist", worker |-> w,
                    turns |-> [v \in Workers |->
                                  IF v = w THEN NoTurn
                                  ELSE IF last.turns[v].loaded /\ out.res # "Panic"
                                  THEN [last.turns[v] EXCEPT !.stale = TRUE]
                                  ELSE last.turns[v]],
                    lost |-> /\ turn.stale
                             /\ out.res # "Panic"
                             /\ NodePaths(filesystem[chat_id]) \ NodePaths(out.fs) # {}]

OverlapNext ==
    \E w \in Workers :
        \/ \E update \in OverlapUpdates : OverlapLoad(w, update)
        \/ OverlapPersist(w)

OverlapSpec == OverlapInit /\ [][OverlapNext]_vars

\* C31: what is stored after a turn saves is what that turn computed from
\* the values it loaded, whatever another turn saved in between (the later
\* writer wins, the earlier mutation is gone); when no other turn saved
\* between its load and its save, what it stores is the outcome of the
\* handler on the values stored just before it saved: nothing is lost.
C31_LastWriterWins ==
    [][last'.op = "persist"
       => LET turn    == last.turns[last'.worker]
              update  == unwrap(turn.update)
              out     == unwrap(turn.out)
          IN  out.res # "Panic"
              => /\ chat_session'[update.chat_id] = out.cs
                 /\ filesystem'[update.chat_id] = out.fs
                 /\ ~turn.stale
                       => out = OwnOutcome(update, chat_session, filesystem)]_vars

\* C31 witness: a turn that loaded before another turn saved has saved in
\* its turn, and a node the other turn had stored is gone
C31_Witness ==
    /\ last.op = "persist"
    /\ last.lost

----------------------------------------------------------------------------
(* Properties of the stored values over the turns *)

\* the layout a conversation starts with: the root with four empty
\* directories
DefaultLayout ==
    [root |-> [kind |-> "Directory",
               nodes |-> [k \in {<<"Documents">>, <<"Images">>, <<"Videos">>,
                                 <<"Trash">>} |->
                             [kind |-> "Directory", nodes |-> <<>>]]]]

\* the outcome of a turn run on a session and a file system
OutcomeOn(l, cs, fs) ==
    with_clear_action_on_error(
        IF l.handler = "message" THEN message_closure(cs, fs, unwrap(l.msg))
        ELSE callback_query_closure(cs, fs, unwrap(l.query)))

\* C32: the first turn of a chat id with nothing stored runs on a session
\* at the root without pending action and on the default layout, and what
\* it ends with is stored; a turn of a chat id with stored values runs on
\* the stored values, not on the defaults.
C32_DefaultsOnFirstLoad ==
    [][\A chat_id \in ChatIds :
          last'.chat_id = chat_id
          => LET cs  == IF chat_id \in DOMAIN chat_session
                        THEN chat_session[chat_id]
                        ELSE [current_path |-> [abs |-> TRUE, comps |-> <<>>],
                              action |-> None]
                 fs  == IF chat_id \in DOMAIN filesystem
                        THEN filesystem[chat_id] ELSE DefaultLayout
                 out == OutcomeOn(last', cs, fs)
             IN  /\ last'.res = out.res
                 /\ out.res # "Panic"
                       => /\ chat_id \in DOMAIN chat_session'
                          /\ chat_id \in DOMAIN filesystem'
                          /\ chat_session'[chat_id] = out.cs
                          /\ filesystem'[chat_id] = out.fs]_vars

\* C32 witness: a button was tapped while nothing was pending, and the
\* stored session and file system are the defaults
C32_Witness ==
    /\ last.branch = "no_action"
    /\ 1 \in DOMAIN chat_session /\ 1 \in DOMAIN filesystem
    /\ chat_session[1] = [current_path |-> [abs |-> TRUE, comps |-> <<>>],
                          action |-> None]
    /\ filesystem[1] = DefaultLayout

\* C33: after any sequence of mkdir, create_file_from_node and mv, failed
\* or not, the root of the namespace is a Directory (the turns change a
\* namespace through these calls only).
C33_RootIsDirectory ==
    \A id \in DOMAIN filesystem : filesystem[id].root.kind = "Directory"

\* C33 witness: a file was stored, and a call that names the root as its
\* target has failed
C33_Witness ==
    /\ last.op \in {"mkdir", "create_file_from_node", "mv"}
    /\ ~last.ok
    /\ (IF last.op = "mv" THEN last.to ELSE last.path) = Some(root_path)
    /\ \E k \in DOMAIN filesystem[1].root.nodes :
          filesystem[1].root.nodes[k].kind = "File"

----------------------------------------------------------------------------
(* Properties of a failing mv *)

\* C34: a mv(from, to) that returns "Node not found" while there is no node
\* at from leaves the namespace as it was: every get_node and every listing
\* gives what it gave before the call.
C34_FailedMvChangesNothing ==
    ( /\ last.op = "mv"
      /\ ~get_node(last.before, unwrap(last.path)).ok
      /\ ~last.ok
      /\ last.err = "Node not found" )
    => /\ filesystem[1] = last.before
       /\ \A path \in FsPaths :
             /\ get_node(filesystem[1], path) = get_node(last.before, path)
             /\ ls(filesystem[1], path) = ls(last.before, path)

\* C35: when mv(from, to) returns an error, the node that was at from before
\* the call is at from after it.
C35_FailedMvKeepsSource ==
    ( /\ last.op = "mv"
      /\ ~last.ok
      /\ Resolves(last.before, unwrap(last.path)) )
    => get_node(filesystem[1], unwrap(last.path))
          = get_node(last.before, unwrap(last.path))

----------------------------------------------------------------------------
(* Frame and invariants of the turns *)

\* the four transitions that call mkdir, create_file_from_node or mv: a
\* text reply while a name is awaited, and "here" while a move source is held
MutatesNamespace(l, chat_id) ==
    /\ ~Idle(LoadedSession(chat_id))
    /\ \/ IsTextReply(l) /\ NameAwaiting(LoadedAction(chat_id))
       \/ /\ Tapped(l, chat_id, CurrentDir)
          /\ LoadedAction(chat_id).tag = "MoveFile"
          /\ is_some(LoadedAction(chat_id).path)

\* C36: every turn other than a text reply in MkDir(Some(DirectoryName)),
\* SaveFile(Some(node), Some(FileName)) or RenameFile(Some(FileName)) and
\* than "here" in MoveFile(Some(from)) leaves the stored namespace equal to
\* the one it loaded.
C36_NamespaceFrame ==
    [][\A chat_id \in ChatIds :
          (last'.chat_id = chat_id /\ ~MutatesNamespace(last', chat_id))
          => /\ last'.res # "Panic" => chat_id \in DOMAIN filesystem'
             /\ chat_id \in DOMAIN filesystem'
                   => filesystem'[chat_id] = LoadedFileSystem(chat_id)]_vars

\* C36 witness: a directory was entered in Explorer while the namespace held
\* a node more than the default layout
C36_Witness ==
    /\ last.branch = "path_explorer"
    /\ last.res = "Ok"
    /\ filesystem[last.chat_id] # DefaultFileSystem
    /\ chat_session[last.chat_id].current_path # root_path

(* The specification SaveOverSpec runs the turns of one chat on a document
   that comes without content type and on a file name that is the absolute
   path of a directory of the default layout. *)

SaveOverMessages ==
    TwoChatsMessages
    \cup {Message(3, None, FALSE, Some(Attachment("document", Some(3), None))),
          Message(2, Some(<<SEP, "Documents">>), FALSE, None)}

SaveOverNext ==
    \E chat_id \in ChatIds :
        \/ \E msg \in SaveOverMessages : HandleUpdateContentMessage(chat_id, msg)
        \/ \E query \in TwoChatsCallbackQueries :
              HandleUpdateContentCallbackQuery(chat_id, query)

SaveOverSpec == Init /\ [][SaveOverNext]_vars

\* the pending actions in which the buttons of the directories are shown
NavigationState(a) ==
    \/ a.tag \in {"Explorer", "MkDir", "MoveFile"}
    \/ a.tag = "SaveFile" /\ is_some(a.node)
    \/ a = RenameFile(None)

\* C37: whenever the pending action of a stored session is Explorer,
\* MkDir(_), SaveFile(Some(_), _), RenameFile(None) or MoveFile(_), its
\* current path resolves to a Directory of the namespace of the chat.
C37_CurrentPathIsDirectory ==
    \A chat_id \in DOMAIN chat_session :
        ( /\ is_some(chat_session[chat_id].action)
          /\ NavigationState(unwrap(chat_session[chat_id].action)) )
        => IsDirectoryAt(filesystem[chat_id], chat_session[chat_id].current_path)

\* C38: the current path of every stored session is absolute: a turn that
\* would set a path that is not absolute panics and stores nothing.
C38_CurrentPathIsAbsolute ==
    [][/\ \A chat_id \in DOMAIN chat_session' :
             /\ chat_session'[chat_id].current_path.abs
             /\ Head(to_string_lossy(chat_session'[chat_id].current_path)) = SEP
       /\ last'.res = "Panic" => UNCHANGED <<chat_session, filesystem>>]_vars

\* C38 witness: a button whose data is a path that is not absolute was
\* tapped while a directory was being chosen; the turn panicked and the
\* stored session is where it was, at the root
C38_Witness ==
    /\ last.res = "Panic"
    /\ IsButtonTap(last)
    /\ TapAction(last).tag = "FileOrDir"
    /\ ~is_absolute(TapPath(last))
    /\ chat_session[last.chat_id].current_path = root_path
    /\ chat_session[last.chat_id].action = Some(MkDir(None))

----------------------------------------------------------------------------
(* Properties of the attachments received while an action is pending *)

AttachmentKinds ==
    {"document", "photo", "video", "video_note", "audio", "voice", "sticker",
     "contact"}

\* an attachment of every kind, with and without a size and a content type
AnyAttachments ==
    {Attachment(kind, size, mime) :
        kind \in AttachmentKinds,
        size \in {None, Some(3)},
        mime \in {None, Some(<<"image", SEP, "png">>)}}

\* the content type recorded for an attachment: the one Telegram gives for
\* a document, a video, an audio and a voice, "jpeg" for a photo and the
\* pseudo type of the kind for a video note, a sticker and a contact
RecordedMimeType(att) ==
    IF att.kind = "photo" THEN Some(<<"jpeg">>)
    ELSE IF att.kind \in {"video_note", "sticker", "contact"}
    THEN Some(TgMime(att.kind))
    ELSE att.mime_type

\* the File node an attachment message stands for
AttachmentFile(msg) ==
    LET att == unwrap(msg.attachment)
    IN  [kind |-> "File", message_id |-> msg.message_id,
         size |-> IF att.kind = "contact" \/ is_none(att.file_size) THEN 0
                  ELSE unwrap(att.file_size),
         mime_type |-> RecordedMimeType(att)]

\* the session and the namespace after an attachment message
StartsSaveFile(out, msg, fs) ==
    /\ out.res = "Ok"
    /\ out.cs = [current_path |-> root_path,
                 action |-> Some(SaveFile(Some(AttachmentFile(msg)), None))]
    /\ out.fs = fs

\* C40: a message without text that carries an attachment, of any kind and
\* received in any session state, leaves the session at the root in
\* SaveFile(Some(node), None), node being the File of the attachment,
\* whatever action and payload are pending; the namespace is as it was.
\* In every state this is the outcome of such a message, and it is what the
\* store holds when the last turn was one.
C40_AttachmentRestartsSaveFile ==
    /\ \A chat_id \in ChatIds :
          \A att \in AnyAttachments :
              LET msg == Message(3, None, FALSE, Some(att))
              IN  StartsSaveFile(handle_update_content_message(chat_id, msg),
                                 msg, LoadedFileSystem(chat_id))
    /\ ( /\ last.handler = "message"
         /\ is_none(unwrap(last.msg).text)
         /\ is_some(unwrap(last.msg).attachment) )
       => /\ last.res = "Ok"
          /\ last.branch = "process_file_message"
          /\ chat_session[last.chat_id]
                = [current_path |-> root_path,
                   action |-> Some(SaveFile(
                       Some(AttachmentFile(unwrap(last.msg))), None))]

\* C40 witness: a contact was received and the session is at the root,
\* waiting for the directory of the contact, while the namespace holds the
\* file "/Documents/a.png" that an earlier save flow stored: the flow that
\* was pending when the contact came is gone
C40_Witness ==
    /\ last.branch = "process_file_message"
    /\ is_some(unwrap(last.msg).attachment)
    /\ unwrap(unwrap(last.msg).attachment).kind = "contact"
    /\ chat_session[last.chat_id]
          = [current_path |-> root_path,
             action |-> Some(SaveFile(Some(new_file(3, 0, Some(TgMime("contact")))),
                                      None))]
    /\ IsFileAt(filesystem[last.chat_id], P(<<SEP, "Documents", SEP, "a", DOT, "png">>))

----------------------------------------------------------------------------
(* Properties of the file node a save flow carries *)

\* the pending action holds a captured file node
HoldsFileNode(cs) ==
    /\ is_some(cs.action)
    /\ unwrap(cs.action).tag = "SaveFile"
    /\ is_some(unwrap(cs.action).node)

HeldFileNode(cs) == unwrap(unwrap(cs.action).node)

SaveFlowTaps == {"CurrentDir", "ParentDir", "FileOrDir", "Back"}

\* the path a File named `text` is stored at from the directory `dir`
StoredAt(dir, text, file_node) ==
    LET path     == join(dir, text)
        inferred == InferredExtension(file_node)
    IN  IF is_some(extension(path)) \/ is_none(inferred) THEN path
        ELSE WithSuffix(path, unwrap(inferred))

\* C39: the file node a save flow captured is carried as it is through
\* every "here", "..", path and back button: after such a turn the session
\* holds the same node, or no action at all when the turn failed. The File
\* the name reply stores is that node, with the message id, the size and
\* the content type of the message that started the flow.
C39_SaveFileNodeIsCarried ==
    [][\A chat_id \in ChatIds :
          LET cs == LoadedSession(chat_id)
          IN  (last'.chat_id = chat_id /\ HoldsFileNode(cs))
              => /\ \E msg \in Messages :
                       /\ is_some(msg.text) \/ is_some(msg.attachment)
                       /\ HeldFileNode(cs) = InboundFile(msg)
                 /\ (IsButtonTap(last') /\ TapAction(last').tag \in SaveFlowTaps)
                    => /\ last'.res = "Ok"
                          => /\ HoldsFileNode(chat_session'[chat_id])
                             /\ HeldFileNode(chat_session'[chat_id])
                                   = HeldFileNode(cs)
                       /\ last'.res # "Ok"
                          => \/ chat_session'[chat_id].action = None
                             \/ chat_session'[chat_id].action = cs.action
                 /\ ( /\ IsTextReply(last')
                      /\ unwrap(cs.action).wait = Some(FileName)
                      /\ last'.res = "Ok" )
                    => /\ last'.branch = "save_file_reply"
                       /\ get_node(filesystem'[chat_id],
                                   StoredAt(cs.current_path,
                                            unwrap(unwrap(last'.msg).text),
                                            HeldFileNode(cs)))
                             = Ok(HeldFileNode(cs))]_vars

\* C39 witness: the document of message 3 went through a path button to
\* "/Documents" and the "here" button, and the name reply "a" stored it as
\* "/Documents/a.png" with its message id, size and content type
C39_Witness ==
    /\ last.branch = "save_file_reply"
    /\ last.res = "Ok"
    /\ unwrap(last.msg).text = Some(<<"a">>)
    /\ chat_session[last.chat_id].current_path = P(<<SEP, "Documents">>)
    /\ get_node(filesystem[last.chat_id],
                P(<<SEP, "Documents", SEP, "a", DOT, "png">>))
          = Ok(new_file(3, 3, Some(<<"image", SEP, "png">>)))

====
